---- MODULE Spec2Model ----
(***************************************************************************)
(* A model of the trie-search engine (TrieSearch), the indexed collection  *)
(* it aggregates results with (HashArray) and the reference reducer        *)
(* (UnionReducer).                                                         *)
(*                                                                         *)
(* Strings are sequences of one-character strings.  A falsy field value    *)
(* (undefined, the empty string) is the empty sequence.  An item is a      *)
(* record whose field `ref` is the identity of the JavaScript object.      *)
(***************************************************************************)
EXTENDS Integers, Sequences, FiniteSets, TLC

VARIABLES
    opts,          \* TrieSearch #options and #keyFields, and the #indexField of the
                   \* reducer in use (fixed at construction)
    root,          \* TrieSearch #root: path of tokens -> node
    size,          \* TrieSearch #size
    lastIndex,     \* lastIndex of the options.splitOnRegEx RegExp object
    cachePhrase,   \* TrieSearch #cachePhrase (QuickLRU)
    cacheWord,     \* TrieSearch #cacheWord (QuickLRU)
    isDestroyed,   \* TrieSearch #isDestroyed
    subscribers,   \* TrieSearch #subscribers
    accumulator,   \* UnionReducer #accumulator of the reducer instance in use
    hashArray,     \* a HashArray instance: #keyFields, #list, #map and #options
    queries,       \* the TrieSearchQuery instances constructed on the TrieSearch
    stack,         \* the map calls in progress: one frame per call that is in its loop
    call,          \* the last call made on the instance and what it returned
    hist           \* counters and facts about the calls made so far

vars == <<opts, root, size, lastIndex, cachePhrase, cacheWord, isDestroyed,
          subscribers, accumulator, hashArray, queries, stack, call, hist>>

----------------------------------------------------------------------------
(* Bounds of the model.                                                    *)

MaxMut == 2        \* add / map / clear calls per behaviour
MaxSearch == 2     \* search calls per behaviour
MaxCacheSearch == 4  \* search calls per behaviour of the cache specification
MaxSubs == 3       \* subscribe / unsubscribe calls per behaviour
MaxHandlers == 2   \* handlers that subscribe
MaxDestroy == 2    \* destroy calls per behaviour
MaxBatches == 2    \* reduce calls per behaviour of the reducer alone
MaxBatchLen == 2   \* items of one batch given to the reducer alone
MaxDepth == 4      \* map calls in progress at a time
MaxQueries == 3    \* TrieSearchQuery instances
MaxQueryOps == 4   \* constructions and destroy calls of queries per behaviour
MaxHashOps == 3    \* calls per behaviour of the HashArray alone

(* Program constants.                                                      *)
MAX_CACHE_SIZE == 64

----------------------------------------------------------------------------
(* Generic helpers.                                                        *)

Range(s) == {s[i] : i \in 1..Len(s)}

Count(s, x) == Cardinality({i \in 1..Len(s) : s[i] = x})

IndexOf(s, x) ==
    IF \E i \in 1..Len(s) : s[i] = x
    THEN (CHOOSE i \in 1..Len(s) : s[i] = x /\ \A j \in 1..(i - 1) : s[j] # x) - 1
    ELSE -1

RemoveAt(s, i) == SubSeq(s, 1, i - 1) \o SubSeq(s, i + 1, Len(s))

Max(a, b) == IF a >= b THEN a ELSE b

----------------------------------------------------------------------------
(* Strings.                                                                *)

IsSpace(c) == c = " "

LowerChar(c) == IF c = "A" THEN "a" ELSE IF c = "B" THEN "b" ELSE c

toLowerCase(s) == [i \in 1..Len(s) |-> LowerChar(s[i])]

\* /^\s*$/.test(p)
REGEX_IS_WHITESPACE(p) == \A i \in 1..Len(p) : IsSpace(p[i])

\* key.split(/\s/): the pieces between the whitespace characters, empty ones kept
RECURSIVE SplitFrom(_, _, _)
SplitFrom(s, i, cur) ==
    IF i > Len(s) THEN <<cur>>
    ELSE IF IsSpace(s[i]) THEN <<cur>> \o SplitFrom(s, i + 1, <<>>)
    ELSE SplitFrom(s, i + 1, Append(cur, s[i]))

IsUpper(c) == c \in {"A", "B"}

\* key.split(/(?=[A-Z])/): the pieces that start at the capital letters; the match
\* is empty, so no piece is cut off before the first character
RECURSIVE SplitCap(_, _, _)
SplitCap(s, i, cur) ==
    IF i > Len(s) THEN <<cur>>
    ELSE IF IsUpper(s[i]) /\ i > 1 THEN <<cur>> \o SplitCap(s, i + 1, <<s[i]>>)
    ELSE SplitCap(s, i + 1, Append(cur, s[i]))

\* key.split(/(?=(.*))\s/): the pieces between the whitespace characters, and
\* after each piece but the last the text the group captured, which is the rest
\* of the key from the whitespace character on
RECURSIVE SplitRest(_, _, _)
SplitRest(s, i, cur) ==
    IF i > Len(s) THEN <<cur>>
    ELSE IF IsSpace(s[i])
    THEN <<cur, SubSeq(s, i, Len(s))>> \o SplitRest(s, i + 1, <<>>)
    ELSE SplitRest(s, i + 1, Append(cur, s[i]))

split(s, regex) ==
    IF regex = "none" THEN <<s>>
    ELSE IF regex = "cap" THEN SplitCap(s, 1, <<>>)
    ELSE IF regex = "ws_rest" THEN SplitRest(s, 1, <<>>)
    ELSE SplitFrom(s, 1, <<>>)

\* regex.test(key) of a RegExp object ("ws_g" is /\s/g, "cap" is /(?=[A-Z])/, which
\* matches before a capital letter, "ws_rest" is /(?=(.*))\s/): a global regex starts at its lastIndex and
\* leaves the end of the match (or 0 on failure) there; a non-global one starts at 0
\* and leaves lastIndex alone.
RegexTest(regex, key, li) ==
    LET from == IF regex = "ws_g" THEN li + 1 ELSE 1
        hits == {i \in from..Len(key) :
                    IF regex = "cap" THEN IsUpper(key[i]) ELSE IsSpace(key[i])}
        first == CHOOSE i \in hits : \A j \in hits : i <= j
    IN  IF hits = {}
        THEN [hit |-> FALSE, lastIndex |-> IF regex = "ws_g" THEN 0 ELSE li]
        ELSE [hit |-> TRUE, lastIndex |-> IF regex = "ws_g" THEN first ELSE li]

----------------------------------------------------------------------------
(* The trie.                                                               *)

EmptyNode == [kids |-> <<>>, value |-> <<>>]

EmptyRoot == (<<>> :> EmptyNode)

\* #keyTokenizer without an external tokenizer
keyTokenizer(o, key) ==
    IF o.min > 1
    THEN IF Len(key) < o.min THEN <<>>
         ELSE <<SubSeq(key, 1, o.min)>> \o
              [i \in 1..(Len(key) - o.min) |-> <<key[o.min + i]>>]
    ELSE [i \in 1..Len(key) |-> <<key[i]>>]

\* a loop of map over the tokens that counts every token, new node or not
RECURSIVE WalkCountAll(_, _, _)
WalkCountAll(st, path, tokens) ==
    IF tokens = <<>> THEN [st |-> st, node |-> path]
    ELSE LET next == Append(path, Head(tokens))
             st1 == IF next \in DOMAIN st.root THEN [st EXCEPT !.size = @ + 1]
                    ELSE [st EXCEPT
                            !.size = @ + 1,
                            !.root = [@ EXCEPT ![path].kids = Append(@, Head(tokens))]
                                        @@ (next :> EmptyNode)]
         IN  WalkCountAll(st1, next, Tail(tokens))

\* the loop of map over the tokens: create the missing nodes, counting them
RECURSIVE Walk(_, _, _)
Walk(st, path, tokens) ==
    IF tokens = <<>> THEN [st |-> st, node |-> path]
    ELSE LET next == Append(path, Head(tokens))
             st1 == IF next \in DOMAIN st.root THEN st
                    ELSE [st EXCEPT
                            !.size = @ + 1,
                            !.root = [@ EXCEPT ![path].kids = Append(@, Head(tokens))]
                                        @@ (next :> EmptyNode)]
         IN  Walk(st1, next, Tail(tokens))

\* a direct insertion that attaches the value to the node the walk ended at, the
\* root included
InsertAtAnyNode(o, st, key, value) ==
    [Walk(st, <<>>, keyTokenizer(o, IF o.ignoreCase THEN toLowerCase(key) ELSE key)).st
        EXCEPT !.root[Walk(st, <<>>, keyTokenizer(o, IF o.ignoreCase THEN toLowerCase(key)
                                                     ELSE key)).node].value =
                   Append(@, value)]

\* map, from the case fold on: the direct insertion of one key
Insert(o, st, key, value) ==
    LET k == IF o.ignoreCase THEN toLowerCase(key) ELSE key
        w == Walk(st, <<>>, keyTokenizer(o, k))
    IN  IF w.node # <<>>
        THEN [w.st EXCEPT !.root[w.node].value = Append(@, value)]
        ELSE w.st

\* map(key, value) on a live instance; st is [root, size, lastIndex]
RECURSIVE mapImpl(_, _, _, _)
RECURSIVE mapWords(_, _, _, _)
mapWords(o, st, words, value) ==
    IF words = <<>> THEN st
    ELSE mapWords(o,
                  IF REGEX_IS_WHITESPACE(Head(words)) THEN st
                  ELSE mapImpl(o, st, Head(words), value),
                  Tail(words), value)

\* a map that inserts a key whose split yields only the key itself just when
\* insertFullUnsplitKey is set
mapImplOptionOnly(o, st, key, value) ==
    IF o.splitOnRegEx = "none" THEN Insert(o, st, key, value)
    ELSE
      LET t == RegexTest(o.splitOnRegEx, key, st.lastIndex)
          st1 == [st EXCEPT !.lastIndex = t.lastIndex]
          words == split(key, o.splitOnRegEx)
          selfIsOnlyMatch ==
              \A i \in 1..Len(words) : REGEX_IS_WHITESPACE(words[i]) \/ words[i] = key
      IN  IF ~t.hit THEN Insert(o, st1, key, value)
          ELSE LET st2 == IF selfIsOnlyMatch THEN st1
                          ELSE mapWords(o, st1, words, value)
               IN  IF o.insertFullUnsplitKey THEN Insert(o, st2, key, value) ELSE st2

mapImpl(o, st, key, value) ==
    IF o.splitOnRegEx = "none" THEN Insert(o, st, key, value)
    ELSE
      LET t == RegexTest(o.splitOnRegEx, key, st.lastIndex)
          st1 == [st EXCEPT !.lastIndex = t.lastIndex]
          words == split(key, o.splitOnRegEx)
          emptySplitMatch == {i \in 1..Len(words) : REGEX_IS_WHITESPACE(words[i])}
          selfMatch == {i \in 1..Len(words) : words[i] = key}
          selfIsOnlyMatch ==
              Cardinality(selfMatch) + Cardinality(emptySplitMatch) = Len(words)
      IN  IF ~t.hit THEN Insert(o, st1, key, value)
          ELSE IF selfIsOnlyMatch THEN Insert(o, st1, key, value)
          ELSE LET st2 == mapWords(o, st1, words, value)
               IN  IF o.insertFullUnsplitKey THEN Insert(o, st2, key, value) ELSE st2

\* selfMatch.length + emptySplitMatch.length === words.length
selfIsOnlyMatch(words, key) ==
    Cardinality({i \in 1..Len(words) : words[i] = key})
        + Cardinality({i \in 1..Len(words) : REGEX_IS_WHITESPACE(words[i])}) = Len(words)

\* map(key, value) from its test on: it inserts the key at once, or it starts the
\* loop over its words with a frame of its own
mapEntered(o, st, stk, key, value, hit, words) ==
    IF ~hit \/ selfIsOnlyMatch(words, key)
    THEN [st |-> Insert(o, st, key, value), stack |-> stk]
    ELSE [st |-> st,
          stack |-> Append(stk, [key |-> key, value |-> value, words |-> words, i |-> 1])]

\* map(key, value) step by step, up to its loop: [st, stack]
mapEnter(o, st, stk, key, value) ==
    IF o.splitOnRegEx = "none"
    THEN [st |-> Insert(o, st, key, value), stack |-> stk]
    ELSE mapEntered(o,
           [st EXCEPT !.lastIndex = RegexTest(o.splitOnRegEx, key, st.lastIndex).lastIndex],
           stk, key, value, RegexTest(o.splitOnRegEx, key, st.lastIndex).hit,
           split(key, o.splitOnRegEx))

\* one step of the loop of the map call on top of the stack: the loop is over (the
\* key is inserted unsplit if the option says so, and the call returns), or the
\* word is skipped, or map is called with it
mapLoop(o, st, rest, top) ==
    IF top.i > Len(top.words)
    THEN [st |-> IF o.insertFullUnsplitKey THEN Insert(o, st, top.key, top.value) ELSE st,
          stack |-> rest]
    ELSE IF REGEX_IS_WHITESPACE(top.words[top.i])
    THEN [st |-> st, stack |-> Append(rest, [top EXCEPT !.i = @ + 1])]
    ELSE mapEnter(o, st, Append(rest, [top EXCEPT !.i = @ + 1]),
                  top.words[top.i], top.value)

----------------------------------------------------------------------------
(* QuickLRU, the cache class of both caches: two generations of entries.   *)
(* An entry is [k |-> key, v |-> value].                                   *)

LruEmpty == [cache |-> {}, old |-> {}, n |-> 0]

LruIn(entries, k) == \E e \in entries : e.k = k

LruValue(entries, k) == (CHOOSE e \in entries : e.k = k).v

LruWithout(entries, k) == {e \in entries : e.k # k}

LruHas(c, k) == LruIn(c.cache, k) \/ LruIn(c.old, k)

\* _set: a new entry of the recent generation; the generations turn over once
\* maxSize entries were added to it
LruPut(c, k, v, maxSize) ==
    LET recent == LruWithout(c.cache, k) \cup {[k |-> k, v |-> v]}
    IN  IF c.n + 1 >= maxSize
        THEN [cache |-> {}, old |-> recent, n |-> 0]
        ELSE [cache |-> recent, old |-> c.old, n |-> c.n + 1]

LruSet(c, k, v, maxSize) ==
    IF LruIn(c.cache, k)
    THEN [c EXCEPT !.cache = LruWithout(@, k) \cup {[k |-> k, v |-> v]}]
    ELSE LruPut(c, k, v, maxSize)

\* get: [hit, v, c]; an entry of the old generation moves to the recent one
LruGet(c, k, maxSize) ==
    IF LruIn(c.cache, k)
    THEN [hit |-> TRUE, v |-> <<LruValue(c.cache, k)>>, c |-> c]
    ELSE IF LruIn(c.old, k)
    THEN [hit |-> TRUE, v |-> <<LruValue(c.old, k)>>,
          c |-> LruPut([c EXCEPT !.old = LruWithout(@, k)], k, LruValue(c.old, k), maxSize)]
    ELSE [hit |-> FALSE, v |-> <<>>, c |-> c]

----------------------------------------------------------------------------
(* HashArray.  #map is the sequence of its entries [key, items] in         *)
(* insertion order.                                                        *)

NewHashArray(keyFields, list) ==
    [keyFields |-> keyFields, list |-> list, map |-> <<>>, ignoreDuplicates |-> FALSE]

objectAt(item, keyField) == item[keyField]

HAHas(ha, key) == \E i \in 1..Len(ha.map) : ha.map[i].key = key

HAPos(ha, key) == CHOOSE i \in 1..Len(ha.map) : ha.map[i].key = key

HAGet(ha, key) == IF HAHas(ha, key) THEN ha.map[HAPos(ha, key)].items ELSE <<>>

sizeFlat(ha) == Len(ha.list)

\* the loop of #addOne over the key fields: [ha, added, dropped]
RECURSIVE addOneKeys(_, _, _, _)
addOneKeys(ha, item, fields, added) ==
    IF fields = <<>> THEN [ha |-> ha, added |-> added, dropped |-> FALSE]
    ELSE
      LET key == objectAt(item, Head(fields))
      IN  IF key = <<>> THEN addOneKeys(ha, item, Tail(fields), added)
          ELSE IF HAHas(ha, key)
          THEN IF ha.ignoreDuplicates
               THEN [ha |-> ha, added |-> added, dropped |-> TRUE]
               ELSE IF IndexOf(HAGet(ha, key), item) # -1
               THEN addOneKeys(ha, item, Tail(fields), FALSE)
               ELSE addOneKeys(
                      [ha EXCEPT !.map[HAPos(ha, key)].items = Append(@, item)],
                      item, Tail(fields), added)
          ELSE addOneKeys(
                 [ha EXCEPT !.map = Append(@, [key |-> key, items |-> <<item>>])],
                 item, Tail(fields), added)

\* the end of #addOne: the item joins the list unless it was dropped or is known
addOneList(r, item) ==
    IF r.dropped THEN r.ha
    ELSE IF r.added \/ IndexOf(r.ha.list, item) = -1
    THEN [r.ha EXCEPT !.list = Append(@, item)]
    ELSE r.ha

HAaddOne(ha, item) == addOneList(addOneKeys(ha, item, ha.keyFields, TRUE), item)

RECURSIVE HAadd(_, _)
HAadd(ha, items) ==
    IF items = <<>> THEN ha ELSE HAadd(HAaddOne(ha, Head(items)), Tail(items))

HAclone(ha, list) ==
    [NewHashArray(ha.keyFields, list) EXCEPT !.ignoreDuplicates = ha.ignoreDuplicates]

\* does intersection keep the item: one of its key values holds it in both maps
InBoth(this, target, item) ==
    \E i \in 1..Len(this.keyFields) :
        LET key == objectAt(item, this.keyFields[i])
        IN  /\ key # <<>>
            /\ IndexOf(HAGet(this, key), item) # -1
            /\ IndexOf(HAGet(target, key), item) # -1

RECURSIVE intersectFrom(_, _, _, _)
intersectFrom(this, target, output, i) ==
    IF i > Len(this.list) THEN output
    ELSE intersectFrom(this, target,
                       IF InBoth(this, target, this.list[i])
                       THEN HAadd(output, <<this.list[i]>>) ELSE output,
                       i + 1)

intersection(this, target, output) == intersectFrom(this, target, output, 1)

\* collides(item): one of the key values of the item has a bucket
collides(ha, item) ==
    \E i \in 1..Len(ha.keyFields) : HAHas(ha, objectAt(item, ha.keyFields[i]))

\* clear()
HAclear(ha) == [ha EXCEPT !.map = <<>>, !.list = <<>>]

\* one turn of the loop of #removeItemFromMap: the item leaves the bucket of the key,
\* and a bucket left empty is deleted
removeItemFromKey(ha, item, key) ==
    IF key = <<>> \/ ~HAHas(ha, key) THEN ha
    ELSE IF IndexOf(HAGet(ha, key), item) = -1 THEN ha
    ELSE IF Len(HAGet(ha, key)) = 1
    THEN [ha EXCEPT !.map = RemoveAt(@, HAPos(ha, key))]
    ELSE [ha EXCEPT !.map[HAPos(ha, key)].items =
                        RemoveAt(@, IndexOf(@, item) + 1)]

\* #removeItemFromMap(item), from the key fields left
RECURSIVE removeItemFromMap(_, _, _)
removeItemFromMap(ha, item, fields) ==
    IF fields = <<>> THEN ha
    ELSE removeItemFromMap(
           removeItemFromKey(ha, item, objectAt(item, Head(fields))),
           item, Tail(fields))

\* list.splice(index, 1) with the index indexOf returned: -1 counts from the end
splice(list, index) ==
    IF index # -1 THEN RemoveAt(list, index + 1)
    ELSE IF list = <<>> THEN list
    ELSE RemoveAt(list, Len(list))

\* one turn of the loop of remove: the item leaves the map, then the list if it is there
removeOne(ha, item) ==
    IF IndexOf(ha.list, item) # -1
    THEN [ha EXCEPT !.list = splice(@, IndexOf(@, item))]
    ELSE ha

\* remove(...items)
RECURSIVE HAremove(_, _)
HAremove(ha, items) ==
    IF items = <<>> THEN ha
    ELSE HAremove(removeOne(removeItemFromMap(ha, Head(items), ha.keyFields),
                            Head(items)),
                  Tail(items))

\* the inner loop of removeByKey over the copy of the bucket: each item leaves the map
\* and list.splice(list.indexOf(item), 1) is done without a test of the index
removeSpliced(ha, item) == [ha EXCEPT !.list = splice(@, IndexOf(@, item))]

RECURSIVE removeBucket(_, _)
removeBucket(ha, items) ==
    IF items = <<>> THEN ha
    ELSE removeBucket(
           removeSpliced(removeItemFromMap(ha, Head(items), ha.keyFields),
                         Head(items)),
           Tail(items))

\* this.#map.delete(key) at the end of a turn of removeByKey
mapDelete(ha, key) ==
    IF HAHas(ha, key) THEN [ha EXCEPT !.map = RemoveAt(@, HAPos(ha, key))] ELSE ha

\* a turn of removeByKey that splices the list once more, found a bucket or not
removeKeyUnguarded(ha, key) ==
    mapDelete([removeBucket(ha, HAGet(ha, key)) EXCEPT !.list = splice(@, -1)], key)

\* one turn of the loop of removeByKey: the bucket of the key, if there is one, is
\* emptied and the key deleted
removeKey(ha, key) ==
    mapDelete(IF HAHas(ha, key) THEN removeBucket(ha, HAGet(ha, key)) ELSE ha, key)

\* removeByKey(...keys)
RECURSIVE HAremoveByKey(_, _)
HAremoveByKey(ha, keys) ==
    IF keys = <<>> THEN ha
    ELSE HAremoveByKey(removeKey(ha, Head(keys)), Tail(keys))

\* removeFirst()
HAremoveFirst(ha) ==
    IF Len(ha.list) # 0 THEN HAremove(ha, <<ha.list[1]>>) ELSE ha

\* removeLast()
HAremoveLast(ha) ==
    IF Len(ha.list) # 0 THEN HAremove(ha, <<ha.list[Len(ha.list)]>>) ELSE ha

----------------------------------------------------------------------------
(* TrieSearch: the search side.  cs is [phrase, word], the two caches.     *)

NoLimit == 0 - 1          \* limit: undefined

DigitChars == <<"0", "1", "2", "3", "4", "5", "6", "7", "8", "9">>

\* `${limit}` of a limit below ten
LimitString(limit) == <<DigitChars[limit + 1]>>

\* #getCacheKey: limit ? `${phrase}_${limit}` : phrase
getCacheKey(phrase, limit) ==
    IF limit # NoLimit /\ limit # 0 THEN phrase \o <<"_">> \o LimitString(limit)
    ELSE phrase

\* the walk of #findNode: [cached, node]; a miss before the last token returns
\* without caching, a miss at the last token is cached as undefined
RECURSIVE findWalk(_, _, _)
findWalk(rt, path, tokens) ==
    IF tokens = <<>>
    THEN [cached |-> TRUE, node |-> [found |-> path \in DOMAIN rt, path |-> path]]
    ELSE IF path \notin DOMAIN rt
    THEN [cached |-> FALSE, node |-> [found |-> FALSE, path |-> <<>>]]
    ELSE findWalk(rt, Append(path, Head(tokens)), Tail(tokens))

NodeRef(n) == IF n.found THEN n ELSE [found |-> FALSE, path |-> <<>>]

\* #findNode(key): [node, word]
findNodeCached(g) == [node |-> g.v[1], word |-> g.c]

findNodeWalked(o, word, key, w) ==
    [node |-> NodeRef(w.node),
     word |-> IF o.cache /\ w.cached
              THEN LruSet(word, key, NodeRef(w.node), o.maxCacheSize)
              ELSE word]

findNode(o, rt, word, key) ==
    IF o.cache /\ LruHas(word, key)
    THEN findNodeCached(LruGet(word, key, o.maxCacheSize))
    ELSE findNodeWalked(o, word, key, findWalk(rt, <<>>, keyTokenizer(o, key)))

\* aggregate(node, ha) of #getImpl, with its loop over the children
RECURSIVE aggregate(_, _, _, _)
RECURSIVE aggregateKids(_, _, _, _, _)
aggregateKids(rt, limit, path, kids, ha) ==
    IF kids = <<>> THEN ha
    ELSE IF limit # NoLimit /\ sizeFlat(ha) >= limit THEN ha
    ELSE aggregateKids(rt, limit, path, Tail(kids),
                       aggregate(rt, limit, Append(path, Head(kids)), ha))

aggregate(rt, limit, path, ha) ==
    LET node == rt[path]
    IN  IF limit # NoLimit /\ sizeFlat(ha) >= limit THEN ha
        ELSE IF node.value # <<>>
        THEN IF (limit = NoLimit \/ limit = 0) \/ sizeFlat(ha) + Len(node.value) < limit
             THEN aggregateKids(rt, limit, path, node.kids, HAadd(ha, node.value))
             ELSE HAadd(ha, SubSeq(node.value, 1, limit - sizeFlat(ha)))
        ELSE aggregateKids(rt, limit, path, node.kids, ha)

\* one turn of the loop of #getImpl, f the node #findNode returned for the word:
\* the new ret
getWord(rt, limit, haKeyFields, ret, f) ==
    LET empty == NewHashArray(haKeyFields, <<>>)
        temp == IF f.node.found THEN aggregate(rt, limit, f.node.path, empty)
                ELSE empty
    IN  IF ret # <<>>
        THEN intersection(ret[1], temp, HAclone(ret[1], <<>>))
        ELSE temp

\* the loop of #getImpl over the words: [ret, word]; ret is <<>> or <<HashArray>>
RECURSIVE getWords(_, _, _, _, _, _, _)
RECURSIVE getWordsNext(_, _, _, _, _, _, _)
getWordsNext(o, rt, words, limit, haKeyFields, ret, f) ==
    getWords(o, rt, Tail(words), limit, haKeyFields,
             <<getWord(rt, limit, haKeyFields, ret, f)>>, f.word)

getWords(o, rt, words, limit, haKeyFields, ret, word) ==
    IF words = <<>> THEN [ret |-> ret, word |-> word]
    ELSE IF o.min # 0 /\ Len(Head(words)) < o.min
    THEN getWords(o, rt, Tail(words), limit, haKeyFields, ret, word)
    ELSE getWordsNext(o, rt, words, limit, haKeyFields, ret,
                      findNode(o, rt, word, Head(words)))

\* the query a cache entry was made for (kept with the entry for the properties;
\* the program stores matches and words only)
Query(phrase, limit) == [phrase |-> phrase, limit |-> limit]

\* #getImpl(phrase, limit, haKeyFields): [matches, words, cs]
getImplEnd(o, cs, phrase, limit, words, matches, word) ==
    [matches |-> matches, words |-> words,
     cs |-> [phrase |-> IF o.cache
                        THEN LruSet(cs.phrase, getCacheKey(phrase, limit),
                                    [matches |-> matches, words |-> words,
                                     by |-> Query(phrase, limit)],
                                    o.maxCacheSize)
                        ELSE cs.phrase,
             word |-> word]]

getImplWords(o, cs, phrase, limit, words, r) ==
    getImplEnd(o, cs, phrase, limit, words,
               IF r.ret # <<>> THEN r.ret[1].list ELSE <<>>, r.word)

getImpl(o, rt, cs, phrase, limit, haKeyFields) ==
    getImplWords(o, cs, phrase, limit, split(phrase, o.splitOnGetRegEx),
                 getWords(o, rt, split(phrase, o.splitOnGetRegEx), limit, haKeyFields,
                          <<>>, cs.word))

\* the matches and words of one phrase in search: the cached entry if the phrase
\* cache holds one, else #getImpl
phraseCached(cs, g) ==
    [matches |-> g.v[1].matches, words |-> g.v[1].words,
     cs |-> [cs EXCEPT !.phrase = g.c], fromCache |-> TRUE, by |-> g.v[1].by]

phraseComputed(r, ignoreCasePhrase, limit) ==
    [matches |-> r.matches, words |-> r.words, cs |-> r.cs,
     fromCache |-> FALSE, by |-> Query(ignoreCasePhrase, limit)]

phraseLookup(o, rt, cs, ignoreCasePhrase, limit, haKeyFields, g) ==
    IF o.cache /\ g.hit
    THEN phraseCached(cs, g)
    ELSE phraseComputed(getImpl(o, rt, cs, ignoreCasePhrase, limit, haKeyFields),
                        ignoreCasePhrase, limit)

phraseFolded(o, rt, cs, ignoreCasePhrase, limit, haKeyFields) ==
    phraseLookup(o, rt, cs, ignoreCasePhrase, limit, haKeyFields,
                 LruGet(cs.phrase, getCacheKey(ignoreCasePhrase, limit), o.maxCacheSize))

phraseMatches(o, rt, cs, phrase, limit, haKeyFields) ==
    phraseFolded(o, rt, cs, IF o.ignoreCase THEN toLowerCase(phrase) ELSE phrase,
                 limit, haKeyFields)

----------------------------------------------------------------------------
(* UnionReducer.  The accumulator is [set, list]: set is FALSE while it is *)
(* undefined.                                                              *)

Undefined == [set |-> FALSE, list |-> <<>>]

Defined(list) == [set |-> TRUE, list |-> list]

\* the index field of a UnionReducer constructed without one
NoIndexField == "undefined"

\* the value of the item at the key: undefined for a key that is undefined
getKeyValue(item, indexField) ==
    IF indexField = NoIndexField THEN <<>> ELSE item[indexField]

\* reduceCount keeping an item at its first occurrence
reduceCountFirst(s, list, i, indexField) ==
    IF i > Len(list) THEN s
    ELSE [seen |-> Append(s.seen, getKeyValue(list[i], indexField)),
          results |-> IF Count(s.seen, getKeyValue(list[i], indexField)) + 1 = 1
                      THEN Append(s.results, list[i]) ELSE s.results]

\* one side of one turn of the loop of reduce: count the id, keep the item when
\* its count reaches 2; s is [seen, results], seen the ids counted so far
reduceCount(s, list, i, indexField) ==
    IF i > Len(list) THEN s
    ELSE LET id == getKeyValue(list[i], indexField)
         IN  [seen |-> Append(s.seen, id),
              results |-> IF Count(s.seen, id) + 1 = 2
                          THEN Append(s.results, list[i]) ELSE s.results]

RECURSIVE reduceLoop(_, _, _, _, _)
reduceLoop(acc, matches, i, s, indexField) ==
    IF i > Max(Len(acc), Len(matches)) THEN s.results
    ELSE reduceLoop(acc, matches, i + 1,
                    reduceCount(reduceCount(s, acc, i, indexField), matches, i, indexField),
                    indexField)

\* UnionReducer.reduce({ matches })
reduce(acc, matches, indexField) ==
    IF ~acc.set THEN Defined(matches)
    ELSE Defined(reduceLoop(acc.list, matches, 1, [seen |-> <<>>, results |-> <<>>],
                            indexField))

\* a reset that leaves the accumulator as it is
resetKeeps(acc) == acc

\* UnionReducer.reset()
reset(acc) == Undefined

\* the index field the reducer is constructed with by default
IndexField == "id"

----------------------------------------------------------------------------
(* TrieSearch.search.  phrases is [kind, list]: kind is "undefined",       *)
(* "string" (list holds the one phrase) or "iterable".                     *)

\* the loop of search over the phrases; s is [cs, acc, rlog, ha, trace]: rlog lists
\* the calls made on the reducer, trace where the matches of each phrase came from
\* searchPhrase with the index of the first phrase given to every call of reduce
searchPhraseIndexZero(s, phrase, index, useReducer, m) ==
    IF useReducer
    THEN [s EXCEPT !.cs = m.cs,
                   !.acc = reduce(s.acc, m.matches, s.indexField),
                   !.rlog = Append(@, [op |-> "reduce", index |-> 0, phrase |-> phrase,
                                       matches |-> m.matches, words |-> m.words]),
                   !.trace = Append(@, [phrase |-> phrase, matches |-> m.matches,
                                        words |-> m.words, fromCache |-> m.fromCache,
                                        by |-> m.by])]
    ELSE [s EXCEPT !.cs = m.cs, !.ha = HAadd(@, m.matches),
                   !.trace = Append(@, [phrase |-> phrase, matches |-> m.matches,
                                        words |-> m.words, fromCache |-> m.fromCache,
                                        by |-> m.by])]

\* one turn of the loop, m the matches of the phrase: with a reducer one call of
\* reduce (index counted from 0), without one the matches join the results
searchPhrase(s, phrase, index, useReducer, m) ==
    LET data == [op |-> "reduce", index |-> index, phrase |-> phrase,
                 matches |-> m.matches, words |-> m.words]
        got == [phrase |-> phrase, matches |-> m.matches, words |-> m.words,
                fromCache |-> m.fromCache, by |-> m.by]
    IN  IF useReducer
        THEN [s EXCEPT !.cs = m.cs,
                       !.acc = reduce(s.acc, m.matches, s.indexField),
                       !.rlog = Append(@, data),
                       !.trace = Append(@, got)]
        ELSE [s EXCEPT !.cs = m.cs, !.ha = HAadd(@, m.matches),
                       !.trace = Append(@, got)]

RECURSIVE searchLoop(_, _, _, _, _, _, _, _)
searchLoop(o, rt, list, index, limit, useReducer, haKeyFields, s) ==
    IF index > Len(list) THEN s
    ELSE searchLoop(o, rt, list, index + 1, limit, useReducer, haKeyFields,
           searchPhrase(s, list[index], index - 1, useReducer,
                        phraseMatches(o, rt, s.cs, list[index], limit, haKeyFields)))

ResetEntry ==
    [op |-> "reset", index |-> 0, phrase |-> <<>>, matches |-> <<>>, words |-> <<>>]

\* reducer?.keyFields ?? this.#keyFields: the key fields of a reducer are its index
\* field, undefined when it was constructed without one
reducerKeyFields(o, useReducer) ==
    IF useReducer /\ o.indexField # NoIndexField THEN <<o.indexField>> ELSE o.keyFields

\* return reducer ? reducer.matches : resultsHA.list
searchReturn(useReducer, s) ==
    [outcome |-> "ok",
     result |-> IF useReducer THEN s.acc ELSE Defined(s.ha.list),
     cs |-> s.cs, acc |-> s.acc, rlog |-> s.rlog, trace |-> s.trace]

\* search(phrases, { reducer, limit }): [outcome, result, cs, acc, rlog, trace]
search(o, rt, cs, acc, phrases, useReducer, limit) ==
    IF phrases.kind = "undefined"
    THEN [outcome |-> "ok", result |-> Defined(<<>>), cs |-> cs, acc |-> acc,
          rlog |-> <<>>, trace |-> <<>>]
    ELSE IF limit # NoLimit /\ limit < 0
    THEN [outcome |-> "TypeError", result |-> Undefined, cs |-> cs, acc |-> acc,
          rlog |-> <<>>, trace |-> <<>>]
    ELSE searchReturn(useReducer,
           searchLoop(o, rt, phrases.list, 1, limit, useReducer,
                      reducerKeyFields(o, useReducer),
                      [cs |-> cs,
                       acc |-> IF useReducer THEN reset(acc) ELSE acc,
                       rlog |-> IF useReducer THEN <<ResetEntry>> ELSE <<>>,
                       ha |-> NewHashArray(reducerKeyFields(o, useReducer), <<>>),
                       trace |-> <<>>, indexField |-> o.indexField]))

----------------------------------------------------------------------------
(* TrieSearch: add.                                                        *)

\* #DEFAULT_INTERNATIONALIZE_EXPAND_REGEXES over the characters of the model:
\* "a^", "e^", "i^", "o^", "u^" are accented vowels and "&" is the ligature ae
DEFAULT_INTERNATIONALIZE_EXPAND_REGEXES ==
    << [chars |-> {"a^", "&"}, alternate |-> <<"a">>],
       [chars |-> {"e^"}, alternate |-> <<"e">>],
       [chars |-> {"i^"}, alternate |-> <<"i">>],
       [chars |-> {"o^"}, alternate |-> <<"o">>],
       [chars |-> {"u^"}, alternate |-> <<"u">>],
       [chars |-> {"&"}, alternate |-> <<"a", "e">>] >>

\* #replaceStringAt(target, index, replacement), index counted from 0
replaceStringAt(target, index, replacement) ==
    SubSeq(target, 1, index) \o replacement \o
    SubSeq(target, index + Len(replacement) + 1, Len(target))

\* the alternates one expansion rule yields: one per match, from left to right
RECURSIVE expandRule(_, _, _)
expandRule(value, er, i) ==
    IF i > Len(value) THEN <<>>
    ELSE (IF value[i] \in er.chars
          THEN <<replaceStringAt(value, i - 1, er.alternate)>> ELSE <<>>)
         \o expandRule(value, er, i + 1)

RECURSIVE expandRules(_, _)
expandRules(value, regexes) ==
    IF regexes = <<>> THEN <<>>
    ELSE expandRule(value, Head(regexes), 1) \o expandRules(value, Tail(regexes))

\* #expandString(value, options)
expandString(value, o) == <<value>> \o expandRules(value, o.expandRegexes)

RECURSIVE mapAll(_, _, _, _)
mapAll(o, st, keys, item) ==
    IF keys = <<>> THEN st
    ELSE mapAll(o, mapImpl(o, st, Head(keys), item), Tail(keys), item)

\* an item that is no object has ref 0
isObject(item) == item.ref # 0

\* the loop of #addOne over the key fields
RECURSIVE addOneFields(_, _, _, _)
addOneFields(o, st, fields, item) ==
    IF fields = <<>> THEN st
    ELSE LET val == item[Head(fields)]
         IN  addOneFields(o,
                          IF val = <<>> THEN st
                          ELSE mapAll(o, st, expandString(val, o), item),
                          Tail(fields), item)

\* the loop of add over its items: [st, threw]; it stops at the first item that
\* is no object
RECURSIVE addItems(_, _, _)
addItems(o, st, items) ==
    IF items = <<>> THEN [st |-> st, threw |-> FALSE]
    ELSE IF ~isObject(Head(items)) THEN [st |-> st, threw |-> TRUE]
    ELSE addItems(o, addOneFields(o, st, o.keyFields, Head(items)), Tail(items))

----------------------------------------------------------------------------
(* Subscribers.  A handler is a number; a handler of the set U unsubscribes *)
(* itself while it is being notified.                                      *)

unsubscribe(subs, h) ==
    IF IndexOf(subs, h) >= 0 THEN RemoveAt(subs, IndexOf(subs, h) + 1) ELSE subs

\* for (let i = 0; i < subscribers.length; i++) subscribers[i](...):
\* [subs, delivered]
RECURSIVE notify(_, _, _, _)
notify(subs, i, U, delivered) ==
    IF i > Len(subs) THEN [subs |-> subs, delivered |-> delivered]
    ELSE notify(IF subs[i] \in U THEN unsubscribe(subs, subs[i]) ELSE subs,
                i + 1, U, Append(delivered, subs[i]))

\* the argument a handler is called with: { action, trieSearch: this }; a
\* reference is <<>> when undefined
This == <<"this">>

Data(action) == [action |-> action, trieSearch |-> This]

\* what the handlers called were given, if any was called
Sent(action, delivered) == IF delivered = <<>> THEN <<>> ELSE <<Data(action)>>

----------------------------------------------------------------------------
(* TrieSearchQuery: a query subscribes a handler of its own to the         *)
(* TrieSearch it is constructed on.                                        *)

QueryIds == 1..MaxQueries

\* the handler a query subscribes: #updateTrieSearch bound to the query
QueryHandler(q) == MaxHandlers + q

QueryHandlers == {QueryHandler(q) : q \in QueryIds}

\* a query that was not constructed, and the fields of one that was: #currentQuery
\* is '' and #currentLimit and #trieReducer are undefined, #data is empty
NoQuery ==
    [made |-> FALSE, isDestroyed |-> FALSE, trieSearch |-> <<>>,
     query |-> [list |-> <<<<>>>>, kind |-> "string"], limit |-> NoLimit,
     useReducer |-> FALSE, data |-> <<>>]

LiveQuery == [NoQuery EXCEPT !.made = TRUE, !.trieSearch = This]

\* destroy() of a query: what it leaves of its fields
destroyQuery(qr) ==
    [qr EXCEPT !.made = TRUE, !.isDestroyed = TRUE, !.trieSearch = <<>>,
               !.data = <<>>]

DestroyedQuery == destroyQuery(LiveQuery)

\* #updateTrieSearch({ action: 'destroy' }) of the queries whose handler was called
updateTrieSearch(qs, delivered) ==
    [q \in QueryIds |->
        IF QueryHandler(q) \in Range(delivered) THEN destroyQuery(qs[q]) ELSE qs[q]]

\* trieSearch.search(this.#currentQuery, { limit, list: this.#data, reducer }) of
\* the query qr, on the trie rt with the caches cs; the reducer of a query is its
\* own instance, which search resets
querySearch(o, rt, cs, qr) ==
    search(o, rt, cs, Undefined, qr.query, qr.useReducer, qr.limit)

\* #performSearch() of the query qr, r being what search returned: [cs, qr].
\* #data is emptied and given to search as the list option, which search fills
\* when it has no reducer; with a reducer the matches go to the reducer
performSearchDone(qr, r) ==
    [cs |-> r.cs,
     qr |-> [qr EXCEPT !.data = IF qr.useReducer THEN <<>> ELSE r.result.list]]

\* one handler called in the loop that notifies the subscribers of an add or
\* clear: the handler of a query searches, s is [cs, qs]
queryNotified(s, q, p) == [cs |-> p.cs, qs |-> [s.qs EXCEPT ![q] = p.qr]]

RECURSIVE queriesNotified(_, _, _, _, _)
queriesNotified(o, rt, s, delivered, i) ==
    IF i > Len(delivered) THEN s
    ELSE IF delivered[i] \in QueryHandlers
    THEN queriesNotified(o, rt,
           queryNotified(s, delivered[i] - MaxHandlers,
             performSearchDone(s.qs[delivered[i] - MaxHandlers],
               querySearch(o, rt, s.cs, s.qs[delivered[i] - MaxHandlers]))),
           delivered, i + 1)
    ELSE queriesNotified(o, rt, s, delivered, i + 1)

----------------------------------------------------------------------------
(* The calls on a TrieSearch instance, one action per public method.       *)

NoPhrases == [list |-> <<>>, kind |-> "undefined"]

String(p) == [list |-> <<p>>, kind |-> "string"]

Iterable(l) == [list |-> l, kind |-> "iterable"]

\* the trie of the instance
Trie == [root |-> root, size |-> size, lastIndex |-> lastIndex]

\* the record of a call: what was called with what, on what, and what came back
NewCall(op) ==
    [op |-> op, outcome |-> "ok", result |-> Undefined, wasDestroyed |-> isDestroyed,
     nargs |-> 0, phrases |-> NoPhrases, limit |-> NoLimit, useReducer |-> FALSE,
     rlog |-> <<>>, trace |-> <<>>, subsBefore |-> subscribers, delivered |-> <<>>,
     key |-> <<>>, before |-> Trie, data |-> <<>>]

DestroyedError == "Error: This instance has been destroyed"

\* the words a key is inserted under: its split words, case-folded
KeyWords(o, key) ==
    LET words == split(key, o.splitOnRegEx)
    IN  {IF o.ignoreCase THEN toLowerCase(words[i]) ELSE words[i] :
            i \in {j \in 1..Len(words) : words[j] # <<>>}}

ItemWords(o, item) ==
    UNION {KeyWords(o, item[o.keyFields[i]]) : i \in 1..Len(o.keyFields)}

\* the (word, item) pairs an add call inserts: those of its items up to the first
\* that is no object
RECURSIVE AddedPairs(_, _)
AddedPairs(o, items) ==
    IF items = <<>> \/ ~isObject(Head(items)) THEN {}
    ELSE {<<w, Head(items)>> : w \in ItemWords(o, Head(items))}
         \cup AddedPairs(o, Tail(items))

\* add of items to a live instance: r is what the loop over the items left, n the
\* notification (an item that is no object throws after the phrase cache was
\* cleared and the items before it were added)
AddNotified(items, r, n, u) ==
    /\ root' = r.st.root
    /\ size' = r.st.size
    /\ lastIndex' = r.st.lastIndex
    /\ cachePhrase' = u.cs.phrase
    /\ cacheWord' = u.cs.word
    /\ queries' = u.qs
    /\ subscribers' = IF r.threw THEN subscribers ELSE n.subs
    /\ call' = [NewCall("add") EXCEPT
                  !.outcome = IF r.threw THEN "TypeError" ELSE "ok",
                  !.nargs = Len(items),
                  !.delivered = IF r.threw THEN <<>> ELSE n.delivered,
                  !.data = IF r.threw THEN <<>> ELSE Sent("add", n.delivered)]
    /\ hist' = [hist EXCEPT
                  !.nMut = @ + 1,
                  !.inserted = @ \cup AddedPairs(opts, items)]
    /\ UNCHANGED <<stack, hashArray, opts, isDestroyed, accumulator>>

\* the queries among the subscribers that were notified search the trie the add
\* left, after the phrase cache was cleared
AddLive(items, r, n) ==
    AddNotified(items, r, n,
                queriesNotified(opts, r.st.root,
                                [cs |-> [phrase |-> LruEmpty, word |-> cacheWord],
                                 qs |-> queries],
                                IF r.threw THEN <<>> ELSE n.delivered, 1))

\* add(...items)
Add(items, U) ==
    /\ hist.nMut < MaxMut
    /\ IF Len(items) = 0
       THEN /\ call' = [NewCall("add") EXCEPT !.outcome = "ok"]
            /\ hist' = [hist EXCEPT !.nMut = @ + 1]
            /\ UNCHANGED <<stack, queries, hashArray, opts, root, size, lastIndex, cachePhrase, cacheWord,
                           isDestroyed, subscribers, accumulator>>
       ELSE IF isDestroyed
       THEN /\ call' = [NewCall("add") EXCEPT !.outcome = DestroyedError,
                                              !.nargs = Len(items)]
            /\ hist' = [hist EXCEPT !.nMut = @ + 1]
            /\ UNCHANGED <<stack, queries, hashArray, opts, root, size, lastIndex, cachePhrase, cacheWord,
                           isDestroyed, subscribers, accumulator>>
       ELSE AddLive(items, addItems(opts, Trie, items),
                    notify(subscribers, 1, U, <<>>))

\* map on a live instance: st is the trie it leaves
MapLive(key, value, st) ==
    /\ root' = st.root
    /\ size' = st.size
    /\ lastIndex' = st.lastIndex
    /\ call' = [NewCall("map") EXCEPT !.key = key]
    /\ hist' = [hist EXCEPT
                  !.nMut = @ + 1,
                  !.inserted = @ \cup {<<w, value>> : w \in KeyWords(opts, key)}]
    /\ UNCHANGED <<stack, queries, hashArray, opts, cachePhrase, cacheWord, isDestroyed, subscribers,
                   accumulator>>

\* map(key, value)
Map(key, value) ==
    /\ hist.nMut < MaxMut
    /\ IF isDestroyed
       THEN /\ call' = [NewCall("map") EXCEPT !.outcome = DestroyedError, !.key = key]
            /\ hist' = [hist EXCEPT !.nMut = @ + 1]
            /\ UNCHANGED <<stack, queries, hashArray, opts, root, size, lastIndex, cachePhrase, cacheWord,
                           isDestroyed, subscribers, accumulator>>
       ELSE MapLive(key, value, mapImpl(opts, Trie, key, value))

\* what a step of a map call leaves of the trie and of the stack
MapMoved(r) ==
    /\ root' = r.st.root
    /\ size' = r.st.size
    /\ lastIndex' = r.st.lastIndex
    /\ stack' = r.stack

\* map(key, value) on a live instance, followed step by step: the call up to its loop
MapBegin(key, value) ==
    /\ hist.nMut < MaxMut
    /\ ~isDestroyed
    /\ stack = <<>>
    /\ MapMoved(mapEnter(opts, Trie, <<>>, key, value))
    /\ call' = [NewCall("map") EXCEPT !.key = key]
    /\ hist' = [hist EXCEPT
                  !.nMut = @ + 1,
                  !.inserted = @ \cup {<<w, value>> : w \in KeyWords(opts, key)}]
    /\ UNCHANGED <<queries, hashArray, opts, cachePhrase, cacheWord, isDestroyed,
                   subscribers, accumulator>>

\* is the next step of the call on top of the stack a call of map
CallsMap(top) ==
    top.i <= Len(top.words) /\ ~REGEX_IS_WHITESPACE(top.words[top.i])

\* the next step of the map call in progress; the calls in progress at a time are
\* bounded
MapStep ==
    /\ stack # <<>>
    /\ CallsMap(stack[Len(stack)]) => Len(stack) < MaxDepth
    /\ MapMoved(mapLoop(opts, Trie, SubSeq(stack, 1, Len(stack) - 1), stack[Len(stack)]))
    /\ UNCHANGED <<queries, hashArray, opts, cachePhrase, cacheWord, isDestroyed,
                   subscribers, accumulator, call, hist>>

\* clear() of a live instance, n being the notification: the queries among the
\* subscribers that were notified search the empty trie
ClearSearched(n, u) ==
    /\ root' = EmptyRoot
    /\ size' = 0
    /\ cachePhrase' = u.cs.phrase
    /\ cacheWord' = u.cs.word
    /\ queries' = u.qs
    /\ subscribers' = n.subs
    /\ call' = [NewCall("clear") EXCEPT !.delivered = n.delivered,
                                      !.data = Sent("clear", n.delivered)]
    /\ hist' = [hist EXCEPT !.nMut = @ + 1, !.onlyMut = FALSE, !.inserted = {}]
    /\ UNCHANGED <<stack, hashArray, opts, lastIndex, isDestroyed, accumulator>>

ClearNotified(n) ==
    ClearSearched(n, queriesNotified(opts, EmptyRoot,
                                     [cs |-> [phrase |-> LruEmpty, word |-> LruEmpty],
                                      qs |-> queries],
                                     n.delivered, 1))

\* clear()
Clear(U) ==
    /\ hist.nMut < MaxMut
    /\ IF isDestroyed
       THEN /\ call' = [NewCall("clear") EXCEPT !.outcome = DestroyedError]
            /\ hist' = [hist EXCEPT !.nMut = @ + 1]
            /\ UNCHANGED <<stack, queries, hashArray, opts, root, size, lastIndex, cachePhrase, cacheWord,
                           isDestroyed, subscribers, accumulator>>
       ELSE ClearNotified(notify(subscribers, 1, U, <<>>))

\* destroy(): the handlers of U unsubscribe when they are called, and so does the
\* handler of a query, which destroys its query on this action
Destroy(U) ==
    /\ hist.nDestroy < MaxDestroy
    /\ LET n == notify(subscribers, 1, U \cup QueryHandlers, <<>>)
       IN  /\ isDestroyed' = TRUE
           /\ root' = EmptyRoot
           /\ size' = 0
           /\ cachePhrase' = LruEmpty
           /\ cacheWord' = LruEmpty
           /\ subscribers' = <<>>
           /\ call' = [NewCall("destroy") EXCEPT !.delivered = n.delivered,
                                               !.data = Sent("destroy", n.delivered)]
           /\ hist' = [hist EXCEPT !.nDestroy = @ + 1, !.onlyMut = FALSE,
                                   !.inserted = {}]
           /\ queries' = updateTrieSearch(queries, n.delivered)
           /\ UNCHANGED <<stack, hashArray, opts, lastIndex, accumulator>>

\* the root accessor
RootAccess ==
    /\ call' = [NewCall("root") EXCEPT
                  !.outcome = IF isDestroyed THEN DestroyedError ELSE "ok"]
    /\ UNCHANGED <<stack, hist, queries, hashArray, opts, root, size, lastIndex, cachePhrase, cacheWord, isDestroyed,
                   subscribers, accumulator>>

Caches == [phrase |-> cachePhrase, word |-> cacheWord]

\* what a search call leaves, r being what search returned
SearchDone(phrases, useReducer, limit, r) ==
    /\ cachePhrase' = r.cs.phrase
    /\ cacheWord' = r.cs.word
    /\ accumulator' = r.acc
    /\ call' = [NewCall("search") EXCEPT
                  !.outcome = r.outcome, !.result = r.result,
                  !.phrases = phrases, !.limit = limit,
                  !.useReducer = useReducer, !.rlog = r.rlog,
                  !.trace = r.trace]
    /\ hist' = [hist EXCEPT !.nSearch = @ + 1, !.onlyMut = FALSE]
    /\ UNCHANGED <<stack, queries, hashArray, opts, root, size, lastIndex, isDestroyed, subscribers>>

\* search(phrases, { reducer, limit })
Search(phrases, useReducer, limit) ==
    /\ hist.nSearch < MaxSearch
    /\ SearchDone(phrases, useReducer, limit,
                  search(opts, root, Caches, accumulator, phrases, useReducer, limit))

\* the key of the phrase cache entry the only phrase of the last search was
\* looked up or stored under
HeldKey == getCacheKey(IF opts.ignoreCase THEN toLowerCase(call.trace[1].phrase)
                       ELSE call.trace[1].phrase, call.limit)

\* the array the last search returned is the matches array of a phrase cache
\* entry: the reducer was given one reduce call, whose matches, taken from the
\* cache or stored in it by #getImpl, it made its accumulator
ReturnedHeld ==
    /\ call.useReducer
    /\ Len(call.trace) = 1
    /\ opts.cache
    /\ LruHas(cachePhrase, HeldKey)

\* the matches array of the entry of key k set to the list (the entry get would
\* return: that of the recent generation if there is one)
LruMutated(c, k, list) ==
    IF LruIn(c.cache, k)
    THEN [c EXCEPT !.cache = {IF e.k = k THEN [e EXCEPT !.v.matches = list] ELSE e :
                                 e \in @}]
    ELSE [c EXCEPT !.old = {IF e.k = k THEN [e EXCEPT !.v.matches = list] ELSE e :
                               e \in @}]

\* the caller of the last search sets the length of the array it was returned
\* to n (result.length = n): with a reducer the array is the accumulator of the
\* reducer, and it may be the array of a cache entry as well
MutateResult(n) ==
    /\ call.op = "search"
    /\ call.outcome = "ok"
    /\ n < Len(call.result.list)
    /\ cachePhrase' = IF ReturnedHeld
                      THEN LruMutated(cachePhrase, HeldKey, SubSeq(call.result.list, 1, n))
                      ELSE cachePhrase
    /\ accumulator' = IF call.useReducer
                      THEN Defined(SubSeq(call.result.list, 1, n))
                      ELSE accumulator
    /\ call' = [NewCall("mutate") EXCEPT !.nargs = n, !.useReducer = call.useReducer]
    /\ UNCHANGED <<stack, queries, hashArray, opts, root, size, lastIndex, cacheWord,
                   isDestroyed, subscribers, hist>>

\* subscribe(handler), of a handler that is not subscribed
Subscribe(h) ==
    /\ hist.nSubs < MaxSubs
    /\ IndexOf(subscribers, h) = -1
    /\ subscribers' = Append(subscribers, h)
    /\ call' = [NewCall("subscribe") EXCEPT !.delivered = <<h>>,
                                           !.data = Sent("subscribe", <<h>>)]
    /\ hist' = [hist EXCEPT !.nSubs = @ + 1, !.onlyMut = FALSE]
    /\ UNCHANGED <<stack, queries, hashArray, opts, root, size, lastIndex, cachePhrase, cacheWord, isDestroyed,
                   accumulator>>

\* the function subscribe(handler) returned
Unsubscribe(h) ==
    /\ hist.nSubs < MaxSubs
    /\ IndexOf(subscribers, h) >= 0
    /\ subscribers' = unsubscribe(subscribers, h)
    /\ call' = NewCall("unsubscribe")
    /\ hist' = [hist EXCEPT !.nSubs = @ + 1, !.onlyMut = FALSE]
    /\ UNCHANGED <<stack, queries, hashArray, opts, root, size, lastIndex, cachePhrase, cacheWord, isDestroyed,
                   accumulator>>

\* #performSearch() of a query: its query is '', without limit or reducer
performSearch(o, rt, cs, acc) ==
    search(o, rt, cs, acc, String(<<>>), FALSE, NoLimit).cs

\* what the construction of query q leaves, cs being the caches after its searches
NewQueryDone(q, cs) ==
    /\ subscribers' = Append(subscribers, QueryHandler(q))
    /\ cachePhrase' = cs.phrase
    /\ cacheWord' = cs.word
    /\ queries' = [queries EXCEPT ![q] = LiveQuery]
    /\ call' = [NewCall("query") EXCEPT !.delivered = <<QueryHandler(q)>>,
                                       !.data = Sent("subscribe", <<QueryHandler(q)>>)]
    /\ hist' = [hist EXCEPT !.nQuery = @ + 1, !.onlyMut = FALSE]
    /\ UNCHANGED <<stack, hashArray, opts, root, size, lastIndex, isDestroyed, accumulator>>

\* new TrieSearchQuery(trieSearch): it subscribes to the TrieSearch and to its two
\* stores, and each subscription calls #performSearch at once
NewQuery(q) ==
    /\ hist.nQuery < MaxQueryOps
    /\ ~queries[q].made
    /\ NewQueryDone(q,
         performSearch(opts, root,
           performSearch(opts, root,
             performSearch(opts, root, Caches, accumulator), accumulator),
           accumulator))

\* query.destroy()
QueryDestroy(q) ==
    /\ hist.nQuery < MaxQueryOps
    /\ queries[q].made
    /\ subscribers' = unsubscribe(subscribers, QueryHandler(q))
    /\ queries' = [queries EXCEPT ![q] = destroyQuery(@)]
    /\ call' = NewCall("queryDestroy")
    /\ hist' = [hist EXCEPT !.nQuery = @ + 1, !.onlyMut = FALSE]
    /\ UNCHANGED <<stack, hashArray, opts, root, size, lastIndex, cachePhrase, cacheWord,
                   isDestroyed, accumulator>>

\* what a change of the query q leaves, p being what #performSearch left
QueryPerformed(q, op, p) ==
    /\ cachePhrase' = p.cs.phrase
    /\ cacheWord' = p.cs.word
    /\ queries' = [queries EXCEPT ![q] = p.qr]
    /\ call' = NewCall(op)
    /\ hist' = [hist EXCEPT !.nQuery = @ + 1, !.onlyMut = FALSE]
    /\ UNCHANGED <<stack, hashArray, opts, root, size, lastIndex, isDestroyed,
                   subscribers, accumulator>>

\* #performSearch() of the query q after one of its fields was set: qr is the
\* query with the new value
QueryChanged(q, op, qr) ==
    QueryPerformed(q, op, performSearchDone(qr, querySearch(opts, root, Caches, qr)))

\* query.query.set(phrases): the store calls #updateQuery unless it is given the
\* string or undefined it holds; a destroyed query has unsubscribed from it
QuerySet(q, phrases) ==
    /\ hist.nQuery < MaxQueryOps
    /\ queries[q].made
    /\ ~queries[q].isDestroyed
    /\ phrases.kind = "iterable" \/ phrases # queries[q].query
    /\ QueryChanged(q, "query.set", [queries[q] EXCEPT !.query = phrases])

\* query.limit.set(limit), of undefined or an integer >= 0
LimitSet(q, limit) ==
    /\ hist.nQuery < MaxQueryOps
    /\ queries[q].made
    /\ ~queries[q].isDestroyed
    /\ limit # queries[q].limit
    /\ QueryChanged(q, "limit.set", [queries[q] EXCEPT !.limit = limit])

\* query.trieReducer = reducer, a UnionReducer or undefined
TrieReducerSet(q, useReducer) ==
    /\ hist.nQuery < MaxQueryOps
    /\ queries[q].made
    /\ ~queries[q].isDestroyed
    /\ QueryChanged(q, "trieReducer", [queries[q] EXCEPT !.useReducer = useReducer])

----------------------------------------------------------------------------
(* The reducer alone: reset and reduce called on one UnionReducer.         *)

IdSet(list) == {getKeyValue(list[i], IndexField) : i \in 1..Len(list)}

UniqueIds(list) ==
    \A i, j \in 1..Len(list) :
        getKeyValue(list[i], IndexField) = getKeyValue(list[j], IndexField) => i = j

\* reducer.reset(...)
ReducerReset ==
    /\ accumulator' = reset(accumulator)
    /\ call' = NewCall("reset")
    /\ hist' = [hist EXCEPT !.nSince = 0, !.fresh = Undefined, !.common = {},
                            !.unique = TRUE, !.last = <<>>, !.wasReset = TRUE]
    /\ UNCHANGED <<stack, queries, hashArray, opts, root, size, lastIndex, cachePhrase, cacheWord, isDestroyed,
                   subscribers>>

\* reducer.reduce({ matches })
ReducerReduce(matches) ==
    /\ hist.nReduce < MaxBatches
    /\ accumulator' = reduce(accumulator, matches, IndexField)
    /\ call' = NewCall("reduce")
    /\ hist' = [hist EXCEPT
                  !.nReduce = @ + 1,
                  !.nSince = @ + 1,
                  !.fresh = reduce(@, matches, IndexField),
                  !.common = IF hist.nSince = 0 THEN IdSet(matches)
                             ELSE @ \cap IdSet(matches),
                  !.unique = @ /\ UniqueIds(matches),
                  !.last = matches]
    /\ UNCHANGED <<stack, queries, hashArray, opts, root, size, lastIndex, cachePhrase, cacheWord, isDestroyed,
                   subscribers>>

\* the record of a call on the HashArray: what was called with what, on what
HashCall(op, args) ==
    [op |-> op, outcome |-> "ok", before |-> hashArray, args |-> args]

\* a call on the HashArray that leaves ha
HashStep(op, args, ha) ==
    /\ hist.nHash < MaxHashOps
    /\ hashArray' = ha
    /\ call' = HashCall(op, args)
    /\ hist' = [hist EXCEPT
                  !.nHash = @ + 1,
                  !.everAdded = IF op = "add" THEN @ \cup Range(args) ELSE @]
    /\ UNCHANGED <<stack, queries, opts, root, size, lastIndex, cachePhrase, cacheWord,
                   isDestroyed, subscribers, accumulator>>

\* hashArray.add(...items)
HashArrayAdd(items) == HashStep("add", items, HAadd(hashArray, items))

\* hashArray.remove(...items)
HashArrayRemove(items) == HashStep("remove", items, HAremove(hashArray, items))

\* hashArray.removeByKey(...keys)
HashArrayRemoveByKey(keys) ==
    HashStep("removeByKey", keys, HAremoveByKey(hashArray, keys))

\* hashArray.removeFirst()
HashArrayRemoveFirst == HashStep("removeFirst", <<>>, HAremoveFirst(hashArray))

\* hashArray.removeLast()
HashArrayRemoveLast == HashStep("removeLast", <<>>, HAremoveLast(hashArray))

\* hashArray.clear()
HashArrayClear == HashStep("clear", <<>>, HAclear(hashArray))

\* the call hashArray.intersection(target) and the HashArray it returns
IntersectionCall(target) ==
    /\ hist.nHash < MaxHashOps
    /\ call' = [op |-> "intersection", outcome |-> "ok", before |-> hashArray,
                target |-> target,
                result |-> intersection(hashArray, target, HAclone(hashArray, <<>>))]
    /\ hist' = [hist EXCEPT !.nHash = @ + 1]
    /\ UNCHANGED <<stack, queries, hashArray, opts, root, size, lastIndex, cachePhrase, cacheWord,
                   isDestroyed, subscribers, accumulator>>

\* hashArray.intersection(target), target a HashArray of the same key fields and options
\* that was given the items
HashArrayIntersection(items) ==
    IntersectionCall(HAadd(HAclone(hashArray, <<>>), items))

----------------------------------------------------------------------------
(* Inputs.                                                                 *)

DefaultOptions ==
    [keyFields |-> <<"key">>, cache |-> TRUE,
     expandRegexes |-> DEFAULT_INTERNATIONALIZE_EXPAND_REGEXES, ignoreCase |-> TRUE,
     insertFullUnsplitKey |-> FALSE, maxCacheSize |-> MAX_CACHE_SIZE, min |-> 1,
     splitOnRegEx |-> "ws_g", splitOnGetRegEx |-> "ws_g", indexField |-> IndexField]

Configs ==
    { DefaultOptions,
      [DefaultOptions EXCEPT !.cache = FALSE],
      [DefaultOptions EXCEPT !.min = 2],
      [DefaultOptions EXCEPT !.ignoreCase = FALSE] }

Item(ref, key, id) == [ref |-> ref, key |-> key, id |-> id]

Item1 == Item(1, <<"a", "b">>, <<"1">>)

Item2 == Item(2, <<"a", " ", "B">>, <<"2">>)

Item3 == Item(3, <<>>, <<>>)

Items == {Item1, Item2, Item3}

AddArgs == {<<>>, <<Item1>>, <<Item2>>, <<Item3>>, <<Item1, Item2>>}

MapKeys == {<<"a">>, <<"A", "b">>, <<"a", " ", "b">>}

SearchPhrases ==
    { NoPhrases, String(<<"a">>), String(<<"a", "b">>), String(<<"B">>),
      String(<<"a", " ", "b">>), Iterable(<<<<"a">>, <<"b">>>>) }

\* reducer or not, and the limit
SearchArgs == {<<FALSE, NoLimit>>, <<FALSE, 0>>, <<FALSE, 1>>, <<TRUE, NoLimit>>}

\* a limit that is no integer >= 0
BadLimit == 0 - 2

Handlers == 1..MaxHandlers

\* the items the reducer alone is given: two of them share their index value
ReducerItems == {Item1, Item2, Item(4, <<"b">>, <<"1">>)}

Batches == UNION {[1..n -> ReducerItems] : n \in 0..MaxBatchLen}

----------------------------------------------------------------------------
(* Specifications.                                                         *)

InitHist ==
    [nMut |-> 0, nSearch |-> 0, nSubs |-> 0, nDestroy |-> 0, nReduce |-> 0,
     onlyMut |-> TRUE, inserted |-> {}, nSince |-> 0, fresh |-> Undefined,
     common |-> {}, unique |-> TRUE, last |-> <<>>, wasReset |-> FALSE,
     nHash |-> 0, everAdded |-> {}, nQuery |-> 0]

InitTrie(o) ==
    /\ opts = o
    /\ root = EmptyRoot
    /\ size = 0
    /\ lastIndex = 0
    /\ cachePhrase = LruEmpty
    /\ cacheWord = LruEmpty
    /\ isDestroyed = FALSE
    /\ subscribers = <<>>
    /\ accumulator = Undefined
    /\ queries = [q \in QueryIds |-> NoQuery]
    /\ stack = <<>>
    /\ hist = InitHist
    /\ call = [op |-> "new", outcome |-> "ok", result |-> Undefined,
               wasDestroyed |-> FALSE, nargs |-> 0, phrases |-> NoPhrases,
               limit |-> NoLimit, useReducer |-> FALSE, rlog |-> <<>>, trace |-> <<>>,
               subsBefore |-> <<>>, delivered |-> <<>>, key |-> <<>>,
               before |-> [root |-> EmptyRoot, size |-> 0, lastIndex |-> 0],
               data |-> <<>>]

InitWith(o) ==
    /\ hashArray = NewHashArray(<<"key">>, <<>>)
    /\ InitTrie(o)

Init == \E o \in Configs : InitWith(o)

Next ==
    \/ \E items \in AddArgs : Add(items, {})
    \/ \E key \in MapKeys, value \in Items : Map(key, value)
    \/ Clear({})
    \/ \E p \in SearchPhrases, a \in SearchArgs : Search(p, a[1], a[2])

Spec == Init /\ [][Next]_vars

\* the life of one instance with its subscribers: the calls that notify them,
\* destroy, and the calls made on a destroyed instance
NextLife ==
    \/ \E h \in Handlers : Subscribe(h)
    \/ \E h \in Handlers : Unsubscribe(h)
    \/ \E items \in {<<>>, <<Item1>>}, U \in SUBSET Range(subscribers) : Add(items, U)
    \/ Map(<<"a">>, Item1)
    \/ \E U \in SUBSET Range(subscribers) : Clear(U)
    \/ \E U \in SUBSET Range(subscribers) : Destroy(U)
    \/ RootAccess
    \/ \E p \in {NoPhrases, String(<<"a">>)} : Search(p, FALSE, NoLimit)

SpecLife == InitWith(DefaultOptions) /\ [][NextLife]_vars

\* searches with and without a reducer on one instance
NextProtocol ==
    \/ Add(<<Item1, Item2>>, {})
    \/ Map(<<"a">>, Item3)
    \/ \E p \in {NoPhrases, String(<<"a">>), Iterable(<<<<"a", "b">>, <<"a">>>>)},
          r \in BOOLEAN, l \in {NoLimit, BadLimit} : Search(p, r, l)

\* the reducer constructed with its index field, or without one
ProtocolConfigs ==
    {DefaultOptions, [DefaultOptions EXCEPT !.indexField = NoIndexField]}

InitProtocol == \E o \in ProtocolConfigs : InitWith(o)

SpecProtocol == InitProtocol /\ [][NextProtocol]_vars

\* one UnionReducer, called directly
NextReducer ==
    \/ ReducerReset
    \/ \E m \in Batches : ReducerReduce(m)

SpecReducer == InitWith(DefaultOptions) /\ [][NextReducer]_vars

\* the instances that map is looked at on: min, insertFullUnsplitKey and the split
\* rule of map vary
MapConfigs ==
    {[DefaultOptions EXCEPT !.min = m, !.insertFullUnsplitKey = f, !.splitOnRegEx = r] :
        m \in {1, 2}, f \in BOOLEAN, r \in {"ws_g", "cap"}}

MapSpecKeys ==
    { <<"a">>, <<" ">>, <<"a", "b">>, <<"A", "b">>, <<"a", "B">>,
      <<"a", " ", "b">>, <<"a", "b", " ", "a">> }

MapSpecPhrases == {<<"a">>, <<"a", "b">>, <<"a", " ", "b">>, <<"a", "b", " ", "a">>}

\* the phrases searched for between the map calls
MapSearched == {<<"a", "b">>, <<"a", " ", "b">>}

InitMap == \E o \in MapConfigs : InitWith(o)

NextMap ==
    \/ \E key \in MapSpecKeys, value \in {Item1, Item3} : Map(key, value)
    \/ Add(<<Item2>>, {})
    \/ Clear({})
    \/ Destroy({})
    \/ \E p \in MapSearched : Search(String(p), FALSE, NoLimit)

SpecMap == InitMap /\ [][NextMap]_vars

\* the instances that the expansion of keys is looked at on: the default table and
\* expandRegexes: []
ExpandConfigs == {DefaultOptions, [DefaultOptions EXCEPT !.expandRegexes = <<>>]}

\* items whose keys hold accented characters ("a^" stands for an accented a, "e^" for
\* an accented e)
Item6 == Item(6, <<"b", "a^">>, <<"6">>)

Item7 == Item(7, <<"a^", "e^">>, <<"7">>)

ExpandItems == {Item1, Item6, Item7}

ExpandPhrases ==
    {<<"b">>, <<"b", "a">>, <<"b", "a^">>, <<"a">>, <<"a", "e^">>, <<"a^", "e">>,
     <<"a", "e">>}

InitExpand == \E o \in ExpandConfigs : InitWith(o)

NextExpand ==
    \/ \E item \in ExpandItems : Add(<<item>>, {})
    \/ Clear({})
    \/ \E p \in ExpandPhrases : Search(String(p), FALSE, NoLimit)

SpecExpand == InitExpand /\ [][NextExpand]_vars

\* the instances that the size of the phrase cache is looked at on
CacheConfigs == {[DefaultOptions EXCEPT !.maxCacheSize = m] : m \in {1, 2, 3}}

CachePhrases == {<<"a">>, <<"a", "b">>, <<"b">>, <<"a", " ", "b">>}

\* phrases given as a list
CacheLists == {<<<<"a">>, <<"b">>>>, <<<<"a", "b">>, <<"a">>>>}

\* search(phrases) of a behaviour that may hold MaxCacheSearch search calls
CacheSearch(phrases) ==
    /\ hist.nSearch < MaxCacheSearch
    /\ SearchDone(phrases, FALSE, NoLimit,
                  search(opts, root, Caches, accumulator, phrases, FALSE, NoLimit))

InitCache == \E o \in CacheConfigs : InitWith(o)

NextCache ==
    \/ \E item \in {Item1, Item2} : Add(<<item>>, {})
    \/ \E p \in CachePhrases : CacheSearch(String(p))
    \/ \E l \in CacheLists : CacheSearch(Iterable(l))

SpecCache == InitCache /\ [][NextCache]_vars

\* the instances that the recursion of map is looked at on: the split rule and
\* insertFullUnsplitKey vary
SplitConfigs ==
    {[DefaultOptions EXCEPT !.insertFullUnsplitKey = f, !.splitOnRegEx = r] :
        f \in BOOLEAN, r \in {"ws_g", "cap", "ws_rest"}}

SplitKeys ==
    { <<"a">>, <<" ">>, <<"A", "b">>, <<"a", "B">>, <<"a", "B", "A">>,
      <<"a", " ", "b">>, <<" ", "a">>, <<"a", "b", " ", "a">> }

InitSplit == \E o \in SplitConfigs : InitWith(o)

NextSplit ==
    \/ \E key \in SplitKeys : MapBegin(key, Item1)
    \/ MapStep

SpecSplit == InitSplit /\ [][NextSplit]_vars

\* add calls one of whose arguments is no object (add(false)), on an instance
\* with subscribers that is searched in between
NoObject == Item(0, <<>>, <<>>)

FailArgs ==
    {<<Item1>>, <<NoObject>>, <<Item1, NoObject>>, <<NoObject, Item1>>,
     <<Item2, Item1>>}

FailPhrases == {String(<<"a">>), String(<<"a", "b">>)}

NextFail ==
    \/ \E items \in FailArgs : Add(items, {})
    \/ \E h \in Handlers : Subscribe(h)
    \/ \E p \in FailPhrases : Search(p, FALSE, NoLimit)

SpecFail == InitWith(DefaultOptions) /\ [][NextFail]_vars

\* items whose keys hold the ligature ae ("&"), which the last rule of the default
\* table replaces by the two characters 'ae': at the start, in the middle and at
\* the end of the key
Item8 == Item(8, <<"&", "b">>, <<"8">>)

Item9 == Item(9, <<"b", "&">>, <<"9">>)

Item10 == Item(10, <<"b", "&", "b">>, <<"10">>)

LigatureItems == {Item6, Item8, Item9, Item10}

LigaturePhrases ==
    { String(<<"a", "e">>), String(<<"a", "e", "b">>), String(<<"b", "a", "e">>),
      String(<<"b", "a">>), String(<<"b", "&">>) }

NextLigature ==
    \/ \E item \in LigatureItems : Add(<<item>>, {})
    \/ Clear({})
    \/ \E p \in LigaturePhrases : Search(p, FALSE, NoLimit)

SpecLigature == InitWith(DefaultOptions) /\ [][NextLigature]_vars

\* searches with and without a reducer whose caller changes the array it was
\* returned, on instances with and without caches
AliasConfigs == {DefaultOptions, [DefaultOptions EXCEPT !.cache = FALSE]}

AliasPhrases ==
    { String(<<"a">>), String(<<"a", "b">>), Iterable(<<<<"a">>>>),
      Iterable(<<<<"a">>, <<"a", "b">>>>) }

InitAlias == \E o \in AliasConfigs : InitWith(o)

NextAlias ==
    \/ \E items \in {<<Item1>>, <<Item1, Item2>>} : Add(items, {})
    \/ \E p \in AliasPhrases, r \in BOOLEAN : Search(p, r, NoLimit)
    \/ \E n \in 0..1 : MutateResult(n)

SpecAlias == InitAlias /\ [][NextAlias]_vars

\* queries on a TrieSearch that is changed: what the queries search for
ReflectPhrases == {NoPhrases, String(<<"a">>), Iterable(<<<<"a">>, <<"a", "b">>>>)}

ReflectQueries == {1, 2}

NextReflect ==
    \/ \E q \in ReflectQueries : NewQuery(q)
    \/ \E q \in ReflectQueries, p \in ReflectPhrases : QuerySet(q, p)
    \/ \E q \in ReflectQueries, l \in {NoLimit, 1} : LimitSet(q, l)
    \/ \E q \in ReflectQueries, r \in BOOLEAN : TrieReducerSet(q, r)
    \/ \E items \in {<<Item1>>, <<Item2>>} : Add(items, {})
    \/ \E key \in {<<"a">>, <<"a", "b">>} : Map(key, Item1)
    \/ Clear({})

\* on instances with and without caches
ReflectConfigs == {DefaultOptions, [DefaultOptions EXCEPT !.cache = FALSE]}

InitReflect == \E o \in ReflectConfigs : InitWith(o)

SpecReflect == InitReflect /\ [][NextReflect]_vars

\* queries constructed on one TrieSearch, next to plain handlers
NextQuery ==
    \/ \E q \in QueryIds : NewQuery(q)
    \/ \E q \in QueryIds : QueryDestroy(q)
    \/ \E h \in Handlers : Subscribe(h)
    \/ \E h \in Handlers : Unsubscribe(h)
    \/ \E U \in SUBSET (Range(subscribers) \cap Handlers) : Destroy(U)

SpecQuery == InitWith(DefaultOptions) /\ [][NextQuery]_vars

\* the items given to the HashArray: Item4 shares its id with Item1, Item5 its key;
\* Item3 has no key value at all
Item4 == Item(4, <<"b">>, <<"1">>)

Item5 == Item(5, <<"a", "b">>, <<"5">>)

HashItems == {Item1, Item2, Item3, Item4, Item5}

HashAddArgs == {<<i>> : i \in HashItems} \cup {<<Item1, Item4>>, <<Item1, Item5>>}

HashRemoveArgs == {<<i>> : i \in HashItems}

\* the keys given to removeByKey and has: no item has the key value "z"
HashKeys == {<<"a", "b">>, <<"b">>, <<"1">>, <<"z">>}

HashKeyArgs == {<<k>> : k \in HashKeys}

\* new HashArray(keyFields, { ignoreDuplicates })
HashConfigs ==
    {[NewHashArray(kf, <<>>) EXCEPT !.ignoreDuplicates = ign] :
        kf \in {<<"key">>, <<"key", "id">>}, ign \in BOOLEAN}

InitHash ==
    \E ha \in HashConfigs : hashArray = ha /\ InitTrie(DefaultOptions)

NextHash ==
    \/ \E items \in HashAddArgs : HashArrayAdd(items)
    \/ \E items \in HashRemoveArgs : HashArrayRemove(items)
    \/ \E keys \in HashKeyArgs : HashArrayRemoveByKey(keys)
    \/ HashArrayRemoveFirst
    \/ HashArrayRemoveLast
    \/ HashArrayClear
    \/ \E items \in HashAddArgs : HashArrayIntersection(items)

SpecHash == InitHash /\ [][NextHash]_vars

----------------------------------------------------------------------------
(* Properties.                                                             *)

NoCaches == [phrase |-> LruEmpty, word |-> LruEmpty]

\* the items search returns for the phrases in the current state of the instance
Found(phrases, limit) ==
    search(opts, root, Caches, accumulator, phrases, FALSE, limit).result.list

\* the same call on an instance constructed with cache: false that holds the same trie
FoundNoCache(phrases, useReducer, limit) ==
    search([opts EXCEPT !.cache = FALSE], root, NoCaches, Undefined, phrases,
           useReducer, limit).result.list

Fold(p) == IF opts.ignoreCase THEN toLowerCase(p) ELSE p

IsSearch == call.op = "search" /\ call.outcome = "ok"

\* C1: after add and map calls only, every item inserted under a word is contained
\* exactly once in search(p), without limit and reducer, for every prefix p of the
\* word that has at least min characters.
C1_PrefixFoundOnce ==
    hist.onlyMut =>
        \A pr \in hist.inserted :
            \A n \in Max(opts.min, 1)..Len(pr[1]) :
                Count(Found(String(SubSeq(pr[1], 1, n)), NoLimit), pr[2]) = 1

\* every cache entry the last search took was made for the phrase and limit it was
\* taken for
OwnEntries ==
    \A i \in 1..Len(call.trace) :
        call.trace[i].fromCache =>
            call.trace[i].by = Query(Fold(call.trace[i].phrase), call.limit)

\* C2: a search on an instance with caching enabled returns the same items as the
\* same call on an instance with cache: false that received the same mutations
\* (stated for the searches that took no cache entry made for another query).
C2_CachesNeverStale ==
    (IsSearch /\ opts.cache /\ OwnEntries) =>
        Range(call.result.list)
            = Range(FoundNoCache(call.phrases, call.useReducer, call.limit))

\* the words of a phrase that take part in a search: those of length >= min
SearchWords(p) ==
    LET words == split(Fold(p), opts.splitOnGetRegEx)
    IN  {words[i] : i \in {j \in 1..Len(words) : Len(words[j]) >= Max(opts.min, 1)}}

SeveralWords == {<<"a", " ", "b">>, <<"a", "b", " ", "a">>}

\* C3: the search of a phrase of several words returns exactly the items that the
\* search of each of its words (of length >= min) returns.
C3_PhraseIsIntersection ==
    \A p \in SeveralWords :
        SearchWords(p) # {} =>
            Range(Found(String(p), NoLimit))
                = {it \in Items : \A w \in SearchWords(p) :
                                      it \in Range(Found(String(w), NoLimit))}

\* C4: every add, map, clear, search and root access on a destroyed instance fails
\* with the destroyed-instance error.
C4_DestroyedFails ==
    (call.wasDestroyed /\ call.op \in {"add", "map", "clear", "search", "root"})
        => call.outcome = DestroyedError

\* C5: destroy notifies every handler subscribed at that moment exactly once,
\* whichever handlers unsubscribe themselves while notified, and leaves no
\* subscriber to notify afterwards.
C5_DestroyNotifiesEachOnce ==
    call.op = "destroy" =>
        /\ \A h \in Range(call.subsBefore) : Count(call.delivered, h) = 1
        /\ subscribers = <<>>

\* C6: the matches a search takes from the phrase cache were cached by a search for
\* the same phrase with the same limit.
C6_NoCacheCollision == IsSearch => OwnEntries

\* C7: without a reducer the search of an iterable of phrases returns the union of
\* the matches of its phrases, each item once.
C7_IterableIsUnion ==
    (IsSearch /\ call.phrases.kind = "iterable" /\ ~call.useReducer) =>
        /\ Range(call.result.list)
             = UNION {Range(call.trace[i].matches) : i \in 1..Len(call.trace)}
        /\ \A it \in Range(call.result.list) : Count(call.result.list, it) = 1

\* C11: a search for phrases with a reducer that was constructed without an index
\* field fails with an error instead of returning a result.
C11_NoIndexFieldFails ==
    (/\ call.op = "search" /\ call.useReducer
     /\ opts.indexField = NoIndexField
     /\ call.phrases.kind # "undefined") => call.outcome # "ok"

\* C12: a search with limit L returns at most L items (counted as distinct items,
\* for the searches that took no cache entry made for another query).
C12_AtMostLimit ==
    (IsSearch /\ call.limit # NoLimit /\ OwnEntries) =>
        Cardinality(Range(call.result.list)) <= call.limit

\* the phrases of one word
SingleWords == {<<"a">>, <<"a", "b">>, <<"B">>}

Min(a, b) == IF a <= b THEN a ELSE b

\* C13: search(word, {limit: L}) of a single word returns exactly min(L, n) items, n the
\* number of items search(word) returns without a limit, each of them one of those n
\* items (for the searches that took no cache entry made for another query).
C13_ExactlyMinLimit ==
    (/\ IsSearch /\ call.limit # NoLimit /\ OwnEntries /\ ~call.useReducer
     /\ call.phrases.kind = "string" /\ call.phrases.list[1] \in SingleWords) =>
        /\ Len(call.result.list) = Min(call.limit, Len(Found(call.phrases, NoLimit)))
        /\ Range(call.result.list) \subseteq Range(Found(call.phrases, NoLimit))

\* C14: an add call with at least one item and a clear call deliver exactly one
\* notification to every handler subscribed at the call (each subscribed once) and
\* none to any other handler, whichever handlers unsubscribe while being notified.
C14_MutationNotifiesEachOnce ==
    (/\ call.op \in {"add", "clear"} /\ call.outcome = "ok"
     /\ call.op = "add" => call.nargs >= 1
     /\ \A h \in Range(call.subsBefore) : Count(call.subsBefore, h) = 1) =>
        /\ \A h \in Range(call.subsBefore) : Count(call.delivered, h) = 1
        /\ Range(call.delivered) \subseteq Range(call.subsBefore)

\* the accumulator a new UnionReducer holds after the calls of a log
RECURSIVE Replay(_, _, _)
Replay(rlog, i, acc) ==
    IF i > Len(rlog) THEN acc
    ELSE Replay(rlog, i + 1,
                IF rlog[i].op = "reset" THEN Undefined
                ELSE reduce(acc, rlog[i].matches, opts.indexField))

\* the calls search made on the reducer are reset, then one reduce per phrase, in
\* order, index counted from 0, with the matches and words the phrase cache holds
\* for the phrase once the call is over; the call returned reducer.matches
ReducerProtocol ==
    /\ call.outcome = "ok"
    /\ Len(call.rlog) = Len(call.phrases.list) + 1
    /\ call.rlog[1] = ResetEntry
    /\ \A i \in 1..Len(call.phrases.list) :
         LET e == call.rlog[i + 1]
             key == getCacheKey(Fold(call.phrases.list[i]), call.limit)
         IN  /\ e.op = "reduce"
             /\ e.index = i - 1
             /\ e.phrase = call.phrases.list[i]
             /\ e.words = split(Fold(e.phrase), opts.splitOnGetRegEx)
             /\ opts.cache =>
                  /\ LruHas(cachePhrase, key)
                  /\ e.matches = LruGet(cachePhrase, key, opts.maxCacheSize).v[1].matches
                  /\ e.words = LruGet(cachePhrase, key, opts.maxCacheSize).v[1].words
    /\ call.result = accumulator
    /\ accumulator = Replay(call.rlog, 1, Undefined)

\* C8 (as stated): every search call with a reducer follows the reducer protocol.
C8_EverySearchWithReducer ==
    (call.op = "search" /\ call.useReducer) => ReducerProtocol

\* C8 (amended): a search call with a reducer, phrases that are not undefined and
\* a limit that is undefined or an integer >= 0 resets the reducer once, then calls
\* reduce once per phrase, in order, with index 0, 1, 2, ... and the matches and
\* words of the phrase, and returns reducer.matches.
C8_ReducerProtocol ==
    (/\ call.op = "search" /\ call.useReducer
     /\ call.phrases.kind # "undefined"
     /\ (call.limit = NoLimit \/ call.limit >= 0)) => ReducerProtocol

\* a search with a reducer over two phrases, the matches of one taken from the cache
C8_Witness ==
    /\ call.op = "search" /\ call.useReducer /\ call.outcome = "ok"
    /\ Len(call.phrases.list) = 2
    /\ \E i \in 1..Len(call.trace) : call.trace[i].fromCache
    /\ \E i \in 1..Len(call.trace) : call.trace[i].matches # <<>>

----------------------------------------------------------------------------
(* Properties of the HashArray.                                            *)

IsHash(op) == call.op = op /\ hist.nHash > 0

\* the items held in some bucket of the map
BucketItems(ha) == UNION {Range(ha.map[i].items) : i \in 1..Len(ha.map)}

\* the non-empty key values of an item
KeyValues(ha, item) ==
    {objectAt(item, ha.keyFields[i]) : i \in 1..Len(ha.keyFields)} \ {<<>>}

InBucket(ha, key, item) == IndexOf(HAGet(ha, key), item) # -1

InEachBucket(ha, item) == \A key \in KeyValues(ha, item) : InBucket(ha, key, item)

\* C15: after any sequence of add, remove, removeByKey, removeFirst, removeLast and
\* clear, every item of the list is in the bucket of each of its non-empty key values,
\* every item of a bucket is in the list and in each of its buckets, no bucket is
\* empty, and sizeFlat is the number of distinct items held in buckets.
C15_ListAndBucketsAgree ==
    hist.nHash > 0 =>
        /\ \A item \in Range(hashArray.list) : InEachBucket(hashArray, item)
        /\ \A item \in BucketItems(hashArray) :
              item \in Range(hashArray.list) /\ InEachBucket(hashArray, item)
        /\ \A i \in 1..Len(hashArray.map) : hashArray.map[i].items # <<>>
        /\ sizeFlat(hashArray) = Cardinality(BucketItems(hashArray))

\* C16: the list never holds the same item twice, and an add of items that are all
\* in the list already leaves sizeFlat unchanged.
C16_NoItemTwice ==
    hist.nHash > 0 =>
        /\ \A item \in Range(hashArray.list) : Count(hashArray.list, item) = 1
        /\ (IsHash("add") /\ Range(call.args) \subseteq Range(call.before.list)) =>
              sizeFlat(hashArray) = sizeFlat(call.before)

\* C17: with ignoreDuplicates, the add of one item that has a key value for which a
\* bucket exists leaves the list and every bucket as they were.
C17_DuplicateDropped ==
    (/\ IsHash("add") /\ call.before.ignoreDuplicates /\ Len(call.args) = 1
     /\ \E key \in KeyValues(call.before, call.args[1]) : HAHas(call.before, key)) =>
        hashArray = call.before

\* C18: remove of items that were never added signals an error and leaves the
\* collection unchanged.
C18_RemoveUnknownFails ==
    (IsHash("remove") /\ Range(call.args) \cap hist.everAdded = {}) =>
        call.outcome # "ok" /\ hashArray = call.before

\* C19: removeByKey of keys that have no bucket raises no error and changes neither
\* the list nor any bucket.
C19_RemoveUnknownKeyNoOp ==
    (IsHash("removeByKey") /\ \A i \in 1..Len(call.args) : ~HAHas(call.before, call.args[i])) =>
        call.outcome = "ok" /\ hashArray = call.before

\* removeByKey of a key without bucket was called on a collection that holds items
\* in its list and in buckets
C19_Witness ==
    /\ IsHash("removeByKey")
    /\ \A i \in 1..Len(call.args) : ~HAHas(call.before, call.args[i])
    /\ Len(call.before.list) >= 2
    /\ call.before.map # <<>>

\* C20: after removeByKey(k), has(k) is false, every item that was in bucket k is in
\* no bucket and not in the list, and every other item is in the list and in its
\* buckets as before.
C20_RemoveByKeyRemovesBucket ==
    (IsHash("removeByKey") /\ Len(call.args) = 1) =>
        /\ ~HAHas(hashArray, call.args[1])
        /\ \A item \in Range(HAGet(call.before, call.args[1])) :
              item \notin Range(hashArray.list) \cup BucketItems(hashArray)
        /\ \A item \in HashItems \ Range(HAGet(call.before, call.args[1])) :
              /\ Count(hashArray.list, item) = Count(call.before.list, item)
              /\ \A key \in HashKeys :
                    InBucket(hashArray, key, item) = InBucket(call.before, key, item)

\* C21: intersection(A, B) holds exactly the items of A and B that collide with both
\* A and B.
C21_IntersectionIsCollidingItems ==
    IsHash("intersection") =>
        \A item \in Range(call.before.list) \cup Range(call.target.list) :
            item \in Range(call.result.list) <=>
                (collides(call.before, item) /\ collides(call.target, item))

----------------------------------------------------------------------------
(* Properties of map, size and min.                                        *)

IsMap == call.op = "map" /\ call.outcome = "ok"

\* the items search returns for a phrase on an instance that holds the trie rt and
\* the caches of the current state
FoundIn(rt, phrase) ==
    search(opts, rt, Caches, accumulator, String(phrase), FALSE, NoLimit).result.list

\* the key of the last map call is shorter than min, or it was split into several
\* words that are all shorter than min and is not inserted unsplit
TooShort ==
    \/ Len(call.key) < opts.min
    \/ /\ Len(split(call.key, opts.splitOnRegEx)) > 1
       /\ KeyWords(opts, call.key) # {}
       /\ \A w \in KeyWords(opts, call.key) : Len(w) < opts.min
       /\ ~opts.insertFullUnsplitKey

\* C22: a map call whose key and split words are all shorter than min creates no node,
\* attaches nothing to the root and leaves size and every search result unchanged.
C22_ShortKeyDiscarded ==
    (IsMap /\ TooShort) =>
        /\ root = call.before.root
        /\ root[<<>>].value = <<>>
        /\ size = call.before.size
        /\ \A p \in MapSpecPhrases : FoundIn(root, p) = FoundIn(call.before.root, p)

\* a key of two words that are shorter than min was mapped on an instance that holds
\* items
C22_Witness ==
    /\ IsMap /\ TooShort
    /\ Len(call.key) >= opts.min
    /\ call.before.size > 0

\* the words of a phrase that search looks up: those of at least min characters
LongWords(p) ==
    LET words == split(Fold(p), opts.splitOnGetRegEx)
    IN  SelectSeq(words, LAMBDA w : Len(w) >= opts.min)

\* C23: two phrases that differ only in words shorter than min have the same search
\* result, and a phrase none of whose words reaches min returns no items.
C23_ShortWordsIgnored ==
    ~isDestroyed =>
        \A p \in MapSpecPhrases :
            /\ LongWords(p) = <<>> => Found(String(p), NoLimit) = <<>>
            /\ \A q \in MapSpecPhrases :
                  LongWords(p) = LongWords(q) =>
                      Found(String(p), NoLimit) = Found(String(q), NoLimit)

\* the nodes of a trie, the root not counted
Nodes(rt) == DOMAIN rt \ {<<>>}

\* C24: size is the number of nodes created since construction or the last clear: a map
\* call adds the number of nodes it created (none when the key is inserted again),
\* search leaves size alone, clear and destroy set it to 0.
C24_SizeCountsNodes ==
    /\ size = Cardinality(Nodes(root))
    /\ IsMap => size - call.before.size = Cardinality(Nodes(root) \ Nodes(call.before.root))
    /\ call.op = "search" => size = call.before.size
    /\ (call.op \in {"clear", "destroy"} /\ call.outcome = "ok") => size = 0

\* a key was mapped again on an instance that holds its nodes: the value was attached,
\* no node was created
C24_Witness ==
    /\ IsMap
    /\ call.before.size >= 2
    /\ root # call.before.root
    /\ Nodes(root) = Nodes(call.before.root)

----------------------------------------------------------------------------
(* Properties of the expansion of keys.                                    *)

Accented == {"a^", "e^"}

\* the base letter of an accented character
BaseLetter(c) == IF c = "a^" THEN "a" ELSE "e"

\* the word with its i-th character replaced by the base letter
Unaccented(w, i) == [w EXCEPT ![i] = BaseLetter(w[i])]

\* C25: with the default expansion table an item added under a key with an accented
\* character is found under every prefix of the key with that character replaced by
\* its base letter; with expandRegexes: [] the search of that key returns no items.
C25_FoundByBaseLetter ==
    \A pr \in hist.inserted :
        \A i \in {j \in 1..Len(pr[1]) : pr[1][j] \in Accented} :
            IF opts.expandRegexes = <<>>
            THEN Found(String(Unaccented(pr[1], i)), NoLimit) = <<>>
            ELSE \A n \in 1..Len(pr[1]) :
                    pr[2] \in Range(Found(String(SubSeq(Unaccented(pr[1], i), 1, n)),
                                          NoLimit))

\* options.splitOnRegEx matched the key of the last map call
SplitHit == RegexTest(opts.splitOnRegEx, call.key, call.before.lastIndex).hit

\* the split of the key of the last map call yields only the key itself or empty
\* strings
SelfIsOnlyMatch ==
    LET words == split(call.key, opts.splitOnRegEx)
    IN  \A i \in 1..Len(words) : REGEX_IS_WHITESPACE(words[i]) \/ words[i] = call.key

\* the values attached to the node of a key in a trie
ValueAt(rt, key) ==
    LET path == keyTokenizer(opts, Fold(key))
    IN  IF path \in DOMAIN rt THEN rt[path].value ELSE <<>>

\* the last map call attached one value to the node of its whole key
FullKeyInserted ==
    Len(ValueAt(root, call.key)) = Len(ValueAt(call.before.root, call.key)) + 1

\* C26 as stated: a key whose split yields only the key itself or empty strings is
\* inserted only if insertFullUnsplitKey is set, else map inserts nothing.
C26_SelfOnlyNeedsOption ==
    (IsMap /\ SplitHit /\ SelfIsOnlyMatch /\ ~opts.insertFullUnsplitKey) =>
        root = call.before.root

\* C26: a key (of at least min characters) whose split yields only the key itself or
\* empty strings is inserted directly whatever insertFullUnsplitKey is; a key that is
\* split into other words is inserted as a whole if and only if insertFullUnsplitKey
\* is set.
C26_SelfOnlyInsertedDirectly ==
    (IsMap /\ SplitHit /\ Len(call.key) >= opts.min) =>
        IF SelfIsOnlyMatch THEN FullKeyInserted
        ELSE FullKeyInserted <=> opts.insertFullUnsplitKey

\* a key that the split rule matches and leaves whole was mapped without
\* insertFullUnsplitKey
C26_Witness ==
    /\ IsMap /\ SplitHit /\ SelfIsOnlyMatch /\ ~opts.insertFullUnsplitKey
    /\ Len(call.key) >= opts.min
    /\ ~REGEX_IS_WHITESPACE(call.key)

\* the keys a QuickLRU answers for: it keeps two generations of entries
LruKeys(c) == {e.k : e \in c.cache \cup c.old}

\* C27: after every search call the phrase cache holds at most maxCacheSize
\* entries; the search of one phrase adds at most one entry to it, and a cache
\* that is at the bound stays at the bound.
C27_PhraseCacheBounded ==
    [][(call'.op = "search" /\ call'.outcome = "ok") =>
          /\ Cardinality(LruKeys(cachePhrase')) <= opts.maxCacheSize
          /\ call'.phrases.kind = "string" =>
                Cardinality(LruKeys(cachePhrase')) - Cardinality(LruKeys(cachePhrase))
                    \in {0, 1}
          /\ Cardinality(LruKeys(cachePhrase)) = opts.maxCacheSize =>
                Cardinality(LruKeys(cachePhrase')) = opts.maxCacheSize]_vars

\* was a notification of this action delivered by the last call
Notified(action) == call.op = action /\ call.outcome = "ok" /\ call.data # <<>>

\* C29: the notification of destroy carries an undefined trie reference, those
\* of add and clear carry the trie instance.
C29_DestroyCarriesUndefined ==
    /\ Notified("destroy") => call.data[1].trieSearch = <<>>
    /\ (Notified("add") \/ Notified("clear")) => call.data[1].trieSearch = This

\* C30: when the TrieSearch is destroyed, every TrieSearchQuery constructed on
\* it is destroyed too (isDestroyed is true and its trieSearch accessor returns
\* undefined), however many queries there are.
C30_QueriesDestroyedWithTrie ==
    (call.op = "destroy" /\ call.outcome = "ok") =>
        \A q \in QueryIds :
            queries[q].made => queries[q].isDestroyed /\ queries[q].trieSearch = <<>>

\* C28: two consecutive search calls with the same phrases and limit, nothing
\* being called in between, return equal results: the same items in the same
\* order.
C28_RepeatedSearchEqual ==
    [][(/\ call.op = "search"
        /\ call'.op = "search"
        /\ call'.phrases = call.phrases
        /\ call'.limit = call.limit
        /\ call'.useReducer = call.useReducer) =>
            /\ call'.outcome = call.outcome
            /\ call'.result = call.result]_vars

\* did the last call mutate the trie: add with items, map or clear, without error
IsMutation ==
    /\ call.outcome = "ok"
    /\ \/ call.op = "add" /\ call.nargs > 0
       \/ call.op = "map"
       \/ call.op = "clear"

\* C32: when an add, map or clear call returns, neither the phrase cache nor
\* the word cache holds an entry made before the call (these calls make none,
\* so both caches are empty).
C32_MutationsInvalidateCaches ==
    IsMutation => LruKeys(cachePhrase) = {} /\ LruKeys(cacheWord) = {}

\* C33: map terminates: a map call made from the loop of a map call is made on
\* a word that differs from the key of that call (and is shorter), so the stack
\* of calls in progress never holds the same key twice in a row.
C33_MapRecursesOnOtherKeys ==
    \A i \in 2..Len(stack) :
        /\ stack[i].key # stack[i - 1].key
        /\ Len(stack[i].key) < Len(stack[i - 1].key)

\* the last call was a map call that has returned
MapReturned == call.op = "map" /\ call.outcome = "ok" /\ stack = <<>>

\* the trie the map call would leave of the trie it found, had no call been made
\* on the instance before (the RegExp object of the split rule as constructed)
MapOfFresh ==
    mapImpl(opts, [call.before EXCEPT !.lastIndex = 0], call.key, Item1)

\* C34: whether and how map splits a key depends on the key and the split rule
\* only: the nodes and values a map call creates are those that the same call
\* creates when no map or add call was made before it.
C34_SplitIndependentOfHistory ==
    (MapReturned /\ opts.splitOnRegEx \in {"ws_g", "cap"}) =>
        root = MapOfFresh.root /\ size = MapOfFresh.size

\* the last call was an add call that threw on an argument that is no object
AddFailed == call.op = "add" /\ call.outcome = "TypeError"

\* C36: an add call that fails because one of its items is no object leaves the
\* trie as it was before the call: the nodes, and so what a search finds, and
\* the size are those the subscribers were last notified of.
C36_FailedAddChangesNothing ==
    AddFailed => root = call.before.root /\ size = call.before.size

\* the word with every accented character replaced by its base letter
FullyUnaccented(w) ==
    [i \in 1..Len(w) |-> IF w[i] \in Accented THEN BaseLetter(w[i]) ELSE w[i]]

\* C37: with the default expansion table an item is inserted under every
\* combination of replaced and unreplaced accented characters of its key; in
\* particular an item whose word has two accented characters is found, whatever
\* the caches hold, under the word with both of them replaced.
C37_FoundFullyUnaccented ==
    opts.expandRegexes # <<>> =>
        \A pr \in hist.inserted :
            pr[2] \in Range(FoundNoCache(String(FullyUnaccented(pr[1])), FALSE,
                                         NoLimit))

\* the word with its i-th character, and only that one, replaced by the alternate
Replaced(w, i, alternate) ==
    SubSeq(w, 1, i - 1) \o alternate \o SubSeq(w, i + 1, Len(w))

\* C38: replacing a matched character by its alternate changes only that
\* character: an item is found, whatever the caches hold, under its word with the
\* one matched character replaced and every other character kept in place, also
\* when the alternate has two characters.
C38_ReplacedKeepsOtherCharacters ==
    \A pr \in hist.inserted :
        \A r \in 1..Len(opts.expandRegexes) :
            \A i \in {j \in 1..Len(pr[1]) : pr[1][j] \in opts.expandRegexes[r].chars} :
                pr[2] \in Range(FoundNoCache(
                    String(Replaced(pr[1], i, opts.expandRegexes[r].alternate)),
                    FALSE, NoLimit))

\* what search returns for the phrases on an instance that holds the trie of the
\* current state and the caches cs
ReturnedWith(cs, phrases, useReducer) ==
    search(opts, root, cs, Undefined, phrases, useReducer, NoLimit).result.list

\* C35: the list search returns is never an array the phrase cache holds: when
\* the caller changes the array it was returned, with or without a reducer, no
\* search returns anything else after the change than it would have before it.
C35_ResultNotHeldByCache ==
    [][call'.op = "mutate" =>
          \A p \in AliasPhrases, r \in BOOLEAN :
              ReturnedWith([phrase |-> cachePhrase', word |-> cacheWord'], p, r)
                  = ReturnedWith(Caches, p, r)]_vars

\* the last call changed the trie, or the query, limit or reducer of a query
Changed ==
    /\ call.outcome = "ok"
    /\ call.op \in {"add", "map", "clear", "query.set", "limit.set", "trieReducer"}

\* C31: a query reflects the current trie: after an add, map or clear call on the
\* trie and after a change of the query, limit or reducer of a query, the result
\* list of every live query is what search returns at that moment for its query
\* with its limit and reducer.
C31_QueryReflectsTrie ==
    Changed =>
        \A q \in QueryIds :
            (queries[q].made /\ ~queries[q].isDestroyed) =>
                queries[q].data
                    = querySearch(opts, root, Caches, queries[q]).result.list

====
